---------------------------- MODULE Spec2Model ----------------------------
(***************************************************************************)
(* A model of the ds18b20 1-Wire driver: the CRC8 checksum, the Rom        *)
(* (address) codec, the SearchRom command of src/src/commands/rom.rs and   *)
(* the device_search / Devices iterator of src/src/temp.rs, run against a  *)
(* simulated wired-AND bus.                                                *)
(*                                                                         *)
(* A u64 is modelled as the set of its set bit indices (a subset of        *)
(* 0..63), bit 0 being the least significant: x | mask is x \cup {i},      *)
(* x & !mask is x \ {i}, x ^ mask is the symmetric difference.  A u8 is an *)
(* integer in 0..255.                                                      *)
(***************************************************************************)
EXTENDS Integers, Sequences, FiniteSets, TLC

VARIABLES
    bus,          \* the devices wired to the bus: a set of u64 addresses
    plugged,      \* FALSE once the bus cable has been pulled
    active,       \* devices still taking part in the current search transaction
    cmd,          \* the function running / last run
    pc,           \* position inside the running function
    index,        \* loop variable: index (SearchRom) / bit_index (device_search)
    rom,          \* SearchRom: local rom (execute) / code (search)
    conflicts,    \* SearchRom.conflicts
    out,          \* the value the last call returned
    reads,        \* read slots issued by the running / last call
    writes,       \* write slots issued by the running / last call
    sent,         \* bytes written with write_byte by the running / last call
    line,         \* the line level at the presence sample of the last reset
    pair,         \* the line levels sampled by the last two read slots of a round
    passes,       \* number of SearchRom::search passes started
    picked,       \* per finished search pass: the devices left selected
    state,        \* Devices.state
    finished,     \* Devices.finished
    address,      \* device_search: local address
    discrepancies,           \* device_search: local discrepancies
    last_discrepancy_index,  \* device_search: local last_discrepancy_index
    searches,     \* what device_search returned, call by call
    items,        \* what Devices::next returned, call by call
    data,         \* codec: the byte sequence under test
    crc,          \* codec: what calculate returned
    appended,     \* codec: the checksum has been appended to data
    chk,          \* codec: what check returned
    decoded,      \* codec: what Rom::try_from returned
    encoded,      \* codec: what From<Rom> returned
    register,     \* scratchpad: what ConfigurationRegister::try_from returned
    reg_byte,     \* scratchpad: <<u8::from(register)>>, <<>> before the call
    temperature,  \* scratchpad: <<resolution, to_temperature(..)>>, <<>> before
    scratchpad,   \* scratchpad: what Scratchpad::try_from returned
    configuration,  \* Driver.configuration: the timing profile in use
    durations,    \* the lengths (ns) of the slots issued by the running / last call
    waits,        \* the plain delays (ns) made by the running / last call
    wire,         \* the bits written in the write slots of the running / last call
    pad,          \* the simulated device's scratchpad memory, 9 bytes
    busy,         \* the number of read slots the simulated device answers with 0
    arg,          \* the argument of the running / last command
    buffer,       \* the bytes read so far by read_bytes
    samples,      \* the line levels sampled by the read slots of the call
    trace,        \* the pin operations and delays performed by the running / last call
    todo,         \* the steps the running call has still to make before it looks at a result
    failed,       \* the pin operation that failed, NoFault if none did
    held,         \* the number of samples for which something holds the line low
    faulty        \* whether the pin is one whose operations can fail

busVars == <<bus, plugged, active, cmd, pc, index, out, reads, writes, sent, line, pair>>
romVars == <<rom, conflicts, passes, picked>>
devVars == <<state, finished, address, discrepancies, last_discrepancy_index,
             searches, items>>
codecVars == <<data, crc, appended, chk, decoded, encoded>>
padVars == <<register, reg_byte, temperature, scratchpad>>
memVars == <<configuration, durations, waits, wire, pad, busy, arg, buffer, samples>>
\* ... without the bits written and the levels sampled
memRest == <<configuration, durations, waits, pad, busy, arg, buffer>>
pinVars == <<trace, todo, failed, held, faulty>>
vars == <<busVars, romVars, devVars, codecVars, padVars, memVars, pinVars>>

----------------------------------------------------------------------------
(* Bounds of the model.                                                    *)

\* the largest number of devices on the simulated bus
MaxDevices == 3
\* the number of distinct devices buses are drawn from
PoolSize == 5
\* the largest number of SearchRom::search passes a caller starts
MaxPasses == 4
\* the largest number of Devices::next calls
MaxItems == 5
\* the longest sampled byte sequence handed to calculate
MaxLen == 2

----------------------------------------------------------------------------
(* Integer helpers.                                                        *)

BITS64 == 64
BITS8 == 8

Pow2(k) == <<1, 2, 4, 8, 16, 32, 64, 128, 256>>[k + 1]

BitOf(byte, k) == (byte \div Pow2(k)) % 2

\* a ^ b on u8
Xor8(a, b) ==
    LET x(k) == ((BitOf(a, k) + BitOf(b, k)) % 2) * Pow2(k)
    IN  x(0) + x(1) + x(2) + x(3) + x(4) + x(5) + x(6) + x(7)

\* u64::to_le_bytes: byte k (1-based) holds bits 8(k-1) .. 8(k-1)+7
ToLeBytes(v) ==
    [k \in 1..8 |->
        LET h(j) == IF (8 * (k - 1) + j) \in v THEN Pow2(j) ELSE 0
        IN  h(0) + h(1) + h(2) + h(3) + h(4) + h(5) + h(6) + h(7)]

\* u64::from_le_bytes
FromLeBytes(b) == {i \in 0..(BITS64 - 1) : BitOf(b[(i \div 8) + 1], i % 8) = 1}

Ok(v) == [tag |-> "Ok", val |-> v]
Err(e) == [tag |-> "Err", err |-> e]
NoResult == [tag |-> "NoResult"]

MismatchedCrc(c) == [kind |-> "MismatchedCrc", crc8 |-> c]
NoAttachedDevices == [kind |-> "NoAttachedDevices", crc8 |-> 0]
UnexpectedResponse == [kind |-> "UnexpectedResponse", crc8 |-> 0]

----------------------------------------------------------------------------
(* crc8.rs                                                                 *)

\* mutant: the polynomial mask of the non-reflected form
CrcShiftMsbPoly(c) ==
    IF c % 2 # 0 THEN Xor8(c \div 2, 49) ELSE c \div 2

\* one pass of the inner loop: bit = crc & 1; crc >>= 1; if bit != 0 { crc ^= 0x8C }
CrcShift(c) ==
    IF c % 2 # 0 THEN Xor8(c \div 2, 140) ELSE c \div 2

\* mutant: the inner loop makes seven turns
CrcByteSevenShifts(c, byte) ==
    CrcShift(CrcShift(CrcShift(CrcShift(
    CrcShift(CrcShift(CrcShift(Xor8(c, byte))))))))

\* the body of the outer loop: crc ^= byte, then u8::BITS shifts
CrcByte(c, byte) ==
    CrcShift(CrcShift(CrcShift(CrcShift(
    CrcShift(CrcShift(CrcShift(CrcShift(Xor8(c, byte)))))))))

\* the values crc takes: before the loop, then after each byte of data
RECURSIVE CrcTrail(_, _)
CrcTrail(trail, bytes) ==
    IF Len(trail) > Len(bytes) THEN trail
    ELSE CrcTrail(Append(trail, CrcByte(trail[Len(trail)], bytes[Len(trail)])), bytes)

\* calculate(data): crc = 0, bytes in the given order, the final crc returned
Calculate(bytes) == CrcTrail(<<0>>, bytes)[Len(bytes) + 1]

\* mutant: the error carries the last byte received instead of the remainder
CheckLastByte(bytes) ==
    IF Calculate(bytes) = 0 THEN Ok(<<>>)
    ELSE Err(MismatchedCrc(bytes[Len(bytes)]))

\* check(data)
Check(bytes) ==
    IF Calculate(bytes) = 0 THEN Ok(<<>>)
    ELSE Err(MismatchedCrc(Calculate(bytes)))

----------------------------------------------------------------------------
(* rom.rs                                                                  *)

\* mutant: the checksum is taken over the first seven bytes only
RomTryFromBytesSevenChecked(value) ==
    IF Check(SubSeq(value, 1, 7)).tag # "Ok" THEN Check(SubSeq(value, 1, 7))
    ELSE Ok([family_code |-> value[1],
             serial_number |-> <<value[2], value[3], value[4],
                                 value[5], value[6], value[7]>>,
             crc |-> value[8]])

\* TryFrom<[u8; 8]> for Rom
RomTryFromBytes(value) ==
    IF Check(value).tag # "Ok" THEN Check(value)
    ELSE Ok([family_code |-> value[1],
             serial_number |-> <<value[2], value[3], value[4],
                                 value[5], value[6], value[7]>>,
             crc |-> value[8]])

\* mutant: the checksum is not looked at
RomTryFromU64Unchecked(value) ==
    LET b == ToLeBytes(value)
    IN  Ok([family_code |-> b[1], serial_number |-> SubSeq(b, 2, 7), crc |-> b[8]])

\* TryFrom<u64> for Rom
RomTryFromU64(value) == RomTryFromBytes(ToLeBytes(value))

\* mutant: the serial number written most significant byte first
RomIntoBytesSerialReversed(value) ==
    <<value.family_code,
      value.serial_number[6], value.serial_number[5], value.serial_number[4],
      value.serial_number[3], value.serial_number[2], value.serial_number[1],
      value.crc>>

\* From<Rom> for [u8; 8]
RomIntoBytes(value) ==
    <<value.family_code,
      value.serial_number[1], value.serial_number[2], value.serial_number[3],
      value.serial_number[4], value.serial_number[5], value.serial_number[6],
      value.crc>>

\* From<Rom> for u64
RomIntoU64(value) == FromLeBytes(RomIntoBytes(value))

----------------------------------------------------------------------------
(* configuration.rs: the timing profiles, intervals in nanoseconds         *)

\* Configuration::standard()
Standard ==
    [a |-> 6000, b |-> 64000, c |-> 60000, d |-> 10000, e |-> 9000,
     f |-> 55000, g |-> 0, h |-> 480000, i |-> 70000, j |-> 410000]

\* Configuration::overdrive()
Overdrive ==
    [a |-> 1000, b |-> 7500, c |-> 7500, d |-> 2500, e |-> 1000,
     f |-> 7000, g |-> 2500, h |-> 70000, i |-> 8500, j |-> 40000]

----------------------------------------------------------------------------
(* The simulated bus: open-drain devices, each with a lasered 64-bit ROM   *)
(* code (family code, serial number, CRC8 of the first seven bytes).       *)

FAMILY_CODE == 40

\* the ROM code lasered for a family code and serial number
Lasered(family, serial) ==
    LET first == <<family>> \o serial
    IN  FromLeBytes(first \o <<Calculate(first)>>)

\* device k of the pool: family 0x28, serial number k
Device(k) == Lasered(FAMILY_CODE, <<k, 0, 0, 0, 0, 0>>)

Pool == {Device(k) : k \in 0..(PoolSize - 1)}

Buses == {b \in SUBSET Pool : Cardinality(b) <= MaxDevices}

\* the devices that answer: none once the cable is pulled
Live == IF plugged THEN active ELSE {}

\* whether a presence pulse holds the line low at the sample point of a reset
PresencePulse == plugged /\ bus # {}

\* the line level (TRUE = high) sampled in the first read slot of search
\* round i: every answering device sends bit i of its code, a 0 pulls low
LineBit(i) == \A d \in Live : i \in d

\* ... and in the second read slot: every device sends the complement
LineComplement(i) == \A d \in Live : i \notin d

\* the devices that stay selected after the master writes bit b in round i
Selected(i, b) == {d \in active : (i \in d) = b}

----------------------------------------------------------------------------
(* lib.rs: the reset + presence handshake, at slot level.                  *)

\* mutant: the presence sample read with is_high instead of is_low
InitializationIsHigh == ~PresencePulse

\* Driver::initialization: Ok(presence), presence = is_low() at the sample
Initialization == PresencePulse

----------------------------------------------------------------------------
(* commands/rom.rs: SearchRom                                              *)

COMMAND_ROM_SEARCH == 240

CONFLICT == <<FALSE, FALSE>>
ZERO == <<FALSE, TRUE>>
ONE == <<TRUE, FALSE>>
NONE == <<TRUE, TRUE>>

\* mutant: the two reads taken as "some device answers 0 / 1" flags, so that
\* both-high is the conflict and both-low is the silence
PatternNegated(reads2) ==
    IF reads2 = NONE THEN "CONFLICT"
    ELSE IF reads2 = ZERO THEN "ZERO"
    ELSE IF reads2 = ONE THEN "ONE"
    ELSE "NONE"

\* the arm of match (driver.read_bit()?, driver.read_bit()?) that is taken
Pattern(reads2) ==
    IF reads2 = CONFLICT THEN "CONFLICT"
    ELSE IF reads2 = ZERO THEN "ZERO"
    ELSE IF reads2 = ONE THEN "ONE"
    ELSE "NONE"

\* mutant: the test of the conflict mask is inverted
ExecuteArmMaskInverted(p, r, c, i) ==
    IF p = "CONFLICT"
    THEN IF i \in c
         THEN [rom |-> r \ {i}, bit |-> FALSE]
         ELSE [rom |-> r \cup {i}, bit |-> TRUE]
    ELSE IF p = "ZERO"
    THEN [rom |-> r \cup {i}, bit |-> FALSE]
    ELSE [rom |-> r \ {i}, bit |-> TRUE]

\* SearchRom::execute, the three arms that go on: the new rom and the bit
\* handed to write_bit; self.conflicts is only read
ExecuteArm(p, r, c, i) ==
    IF p = "CONFLICT"
    THEN IF i \notin c
         THEN [rom |-> r \ {i}, bit |-> FALSE]
         ELSE [rom |-> r \cup {i}, bit |-> TRUE]
    ELSE IF p = "ZERO"
    THEN [rom |-> r \cup {i}, bit |-> FALSE]
    ELSE [rom |-> r \ {i}, bit |-> TRUE]

\* SearchRom::search, the three arms that go on: the new code, the new
\* self.conflicts and the bit handed to write_bit.  In the CONFLICT arm
\* self.conflicts ^= mask comes first, then the test self.conflicts ^ mask == 0
SearchArm(p, r, c, i) ==
    IF p = "CONFLICT"
    THEN LET toggled == (c \ {i}) \cup ({i} \ c)
             again == (toggled \ {i}) \cup ({i} \ toggled)
         IN  IF again = {}
             THEN [rom |-> r \ {i}, conflicts |-> toggled \cup {i}, bit |-> FALSE]
             ELSE [rom |-> r \cup {i}, conflicts |-> toggled \ {i}, bit |-> TRUE]
    ELSE IF p = "ZERO"
    THEN [rom |-> r \cup {i}, conflicts |-> c, bit |-> FALSE]
    ELSE [rom |-> r \ {i}, conflicts |-> c, bit |-> TRUE]

\* the start of either function: initialization, then write_byte(0xF0)
SearchRomBegin(f) ==
    /\ pc \in {"idle", "done"}
    /\ cmd' = f
    /\ reads' = 0
    /\ index' = 0
    /\ rom' = {}
    /\ line' = IF PresencePulse THEN "low" ELSE "high"
    /\ pair' = <<>>
    /\ samples' = <<>>
    /\ IF ~Initialization
       THEN /\ out' = Err(NoAttachedDevices)
            /\ pc' = "done"
            /\ writes' = 0
            /\ sent' = <<>>
            /\ wire' = <<>>
            /\ active' = {}
       ELSE /\ out' = NoResult
            /\ pc' = "rounds"
            /\ writes' = BITS8
            /\ sent' = <<COMMAND_ROM_SEARCH>>
            /\ wire' = [k \in 1..BITS8 |-> BitOf(COMMAND_ROM_SEARCH, k - 1) = 1]
            /\ active' = bus
    /\ UNCHANGED <<pinVars, padVars, memRest, bus, plugged, conflicts, picked, devVars, codecVars>>

ExecuteStart ==
    /\ SearchRomBegin("execute")
    /\ UNCHANGED passes

SearchStart ==
    /\ passes < MaxPasses
    /\ passes = 0 \/ conflicts # {}
    /\ SearchRomBegin("search")
    /\ passes' = passes + 1

\* one turn of for index in 0..u64::BITS of execute
ExecuteRound ==
    /\ pc = "rounds" /\ cmd = "execute" /\ index < BITS64
    /\ LET p == Pattern(<<LineBit(index), LineComplement(index)>>)
           arm == ExecuteArm(p, rom, conflicts, index)
       IN  /\ reads' = reads + 2
           /\ pair' = <<LineBit(index), LineComplement(index)>>
           /\ samples' = samples \o <<LineBit(index), LineComplement(index)>>
           /\ IF p = "NONE"
              THEN /\ out' = Err(NoAttachedDevices)
                   /\ pc' = "done"
                   /\ UNCHANGED <<rom, writes, wire, active, index>>
              ELSE /\ rom' = arm.rom
                   /\ writes' = writes + 1
                   /\ wire' = Append(wire, arm.bit)
                   /\ active' = Selected(index, arm.bit)
                   /\ index' = index + 1
                   /\ UNCHANGED <<out, pc>>
    /\ UNCHANGED <<pinVars, padVars, memRest, bus, plugged, cmd, sent, line, conflicts, passes, picked, devVars, codecVars>>

\* rom.try_into() after the loop of execute
ExecuteFinish ==
    /\ pc = "rounds" /\ cmd = "execute" /\ index = BITS64
    /\ out' = RomTryFromU64(rom)
    /\ pc' = "done"
    /\ UNCHANGED <<pinVars, padVars, memVars, bus, plugged, active, cmd, index, reads, writes, sent,
                   line, pair, romVars, devVars, codecVars>>

\* one turn of for index in 0..u64::BITS of search
SearchRound ==
    /\ pc = "rounds" /\ cmd = "search" /\ index < BITS64
    /\ LET p == Pattern(<<LineBit(index), LineComplement(index)>>)
           arm == SearchArm(p, rom, conflicts, index)
       IN  /\ reads' = reads + 2
           /\ pair' = <<LineBit(index), LineComplement(index)>>
           /\ samples' = samples \o <<LineBit(index), LineComplement(index)>>
           /\ IF p = "NONE"
              THEN /\ out' = Err(NoAttachedDevices)
                   /\ pc' = "done"
                   /\ UNCHANGED <<rom, conflicts, writes, wire, active, index>>
              ELSE /\ rom' = arm.rom
                   /\ conflicts' = arm.conflicts
                   /\ writes' = writes + 1
                   /\ wire' = Append(wire, arm.bit)
                   /\ active' = Selected(index, arm.bit)
                   /\ index' = index + 1
                   /\ UNCHANGED <<out, pc>>
    /\ UNCHANGED <<pinVars, padVars, memRest, bus, plugged, cmd, sent, line, passes, picked, devVars, codecVars>>

\* code.try_into() after the loop of search
SearchFinish ==
    /\ pc = "rounds" /\ cmd = "search" /\ index = BITS64
    /\ out' = RomTryFromU64(rom)
    /\ pc' = "done"
    /\ picked' = Append(picked, active)
    /\ UNCHANGED <<pinVars, padVars, memVars, bus, plugged, active, cmd, index, reads, writes, sent,
                   line, pair, rom, conflicts, passes, devVars, codecVars>>

\* the bus cable is pulled: from now on no device answers
Disconnect ==
    /\ plugged
    /\ plugged' = FALSE
    /\ UNCHANGED <<pinVars, padVars, memVars, bus, active, cmd, pc, index, out, reads, writes, sent,
                   line, pair, romVars, devVars, codecVars>>

NoState == [none |-> TRUE]

InitBus ==
    /\ bus \in Buses
    /\ plugged = TRUE
    /\ active = {}
    /\ cmd = "none"
    /\ pc = "idle"
    /\ index = 0
    /\ out = NoResult
    /\ reads = 0
    /\ writes = 0
    /\ sent = <<>>
    /\ line = "high"
    /\ pair = <<>>

InitRom ==
    /\ rom = {}
    /\ conflicts = {}
    /\ passes = 0
    /\ picked = <<>>

InitDev ==
    /\ state = NoState
    /\ finished = FALSE
    /\ address = {}
    /\ discrepancies = {}
    /\ last_discrepancy_index = 0
    /\ searches = <<>>
    /\ items = <<>>

InitCodec ==
    /\ data = <<>>
    /\ crc = 256
    /\ appended = FALSE
    /\ chk = NoResult
    /\ decoded = NoResult
    /\ encoded = <<>>

InitPad ==
    /\ register = NoResult
    /\ reg_byte = <<>>
    /\ temperature = <<>>
    /\ scratchpad = NoResult

InitMem ==
    /\ configuration = Standard
    /\ durations = {}
    /\ waits = <<>>
    /\ wire = <<>>
    /\ pad = <<>>
    /\ busy = 0
    /\ arg = NoResult
    /\ buffer = <<>>
    /\ samples = <<>>

NoFault == [none |-> TRUE]

InitPin ==
    /\ trace = <<>>
    /\ todo = <<>>
    /\ failed = NoFault
    /\ held = 0
    /\ faulty = FALSE

Init == InitBus /\ InitRom /\ InitDev /\ InitCodec /\ InitPad /\ InitMem /\ InitPin

Next ==
    \/ ExecuteStart
    \/ ExecuteRound
    \/ ExecuteFinish
    \/ SearchStart
    \/ SearchRound
    \/ SearchFinish
    \/ Disconnect

Spec == Init /\ [][Next]_vars

----------------------------------------------------------------------------
(* temp.rs: device_search and the Devices iterator                         *)

\* mutant: the reset always reports a presence
ResetIgnoresAbsence == TRUE

\* OneWire::reset: Ok(presence)
Reset == Initialization

Some(v) == [some |-> TRUE, val |-> v]
None == [some |-> FALSE]

\* mutant: the lower branch is not tried first at a new discrepancy
ChosenBitHighFirst(false_bit, true_bit) == true_bit

\* device_search, the scan loop: chosen_bit of
\* match (false_bit, true_bit) in the three arms that go on
ChosenBit(false_bit, true_bit) ==
    IF ~false_bit /\ true_bit THEN TRUE
    ELSE IF false_bit /\ ~true_bit THEN FALSE
    ELSE FALSE

\* mutant: the discrepancy just taken is kept in the mask
KeptDiscrepanciesAll(search_state) == search_state.discrepancies

\* device_search: keep all discrepancies except the last one
KeptDiscrepancies(search_state) ==
    search_state.discrepancies \ {search_state.last_discrepancy_index}

\* mutant: the address of the last pass is taken over as it is
OtherBranchNotSet(search_state) == search_state.address

\* device_search at the last discrepancy: address = search_state.address,
\* then address |= 1 << last_discrepancy_index
OtherBranch(search_state) ==
    search_state.address \cup {search_state.last_discrepancy_index}

\* Devices::next, the match on what device_search returned
DevicesMatch(result) ==
    /\ searches' = Append(searches, result)
    /\ IF result.tag = "Ok" /\ result.val.some
       THEN /\ state' = result.val.val[2]
            /\ items' = Append(items, Some(Ok(result.val.val[1])))
            /\ UNCHANGED finished
       ELSE IF result.tag = "Ok"
       THEN /\ state' = NoState
            /\ finished' = TRUE
            /\ items' = Append(items, None)
       ELSE /\ state' = NoState
            /\ finished' = TRUE
            /\ items' = Append(items, Some(result))

\* Devices::next once finished: None, nothing else happens
DevicesNextFinished ==
    /\ pc = "idle"
    /\ finished
    /\ Len(items) < MaxItems
    /\ items' = Append(items, None)
    /\ cmd' = "next"
    /\ UNCHANGED <<pinVars, padVars, memVars, bus, plugged, active, pc, index, out, reads, writes, sent,
                   line, pair, romVars, state, finished, address, discrepancies,
                   last_discrepancy_index, searches, codecVars>>

\* Devices::next calling device_search, up to the search loops: the early
\* Ok(None) for an exhausted state, reset, write_byte(COMMAND_ROM_SEARCH)
DevicesNext ==
    /\ pc = "idle"
    /\ ~finished
    /\ Len(items) < MaxItems
    /\ cmd' = "next"
    /\ reads' = 0
    /\ pair' = <<>>
    /\ out' = NoResult
    /\ IF state # NoState /\ state.discrepancies = {}
       THEN /\ DevicesMatch(Ok(None))
            /\ writes' = 0
            /\ sent' = <<>>
            /\ UNCHANGED <<line, active, pc, index, address, discrepancies,
                           last_discrepancy_index>>
       ELSE /\ line' = IF PresencePulse THEN "low" ELSE "high"
            /\ IF ~Reset
               THEN /\ DevicesMatch(Ok(None))
                    /\ writes' = 0
                    /\ sent' = <<>>
                    /\ UNCHANGED <<active, pc, index, address, discrepancies,
                                   last_discrepancy_index>>
               ELSE /\ writes' = BITS8
                    /\ sent' = <<COMMAND_ROM_SEARCH>>
                    /\ active' = bus
                    /\ last_discrepancy_index' = 0
                    /\ index' = 0
                    /\ IF state # NoState
                       THEN /\ pc' = "follow"
                            /\ UNCHANGED <<address, discrepancies>>
                       ELSE /\ pc' = "scan"
                            /\ address' = {}
                            /\ discrepancies' = {}
                    /\ UNCHANGED <<state, finished, searches, items>>
    /\ UNCHANGED <<pinVars, padVars, memVars, bus, plugged, romVars, codecVars>>

\* one turn of for bit_index in 0..search_state.last_discrepancy_index
FollowRound ==
    /\ pc = "follow"
    /\ index < state.last_discrepancy_index
    /\ LET was_discrepancy_bit == index \in state.discrepancies
           previous_chosen_bit == index \in state.address
       IN  /\ reads' = reads + 2
           /\ pair' = <<LineBit(index), LineComplement(index)>>
           /\ last_discrepancy_index' =
                  IF was_discrepancy_bit THEN index ELSE last_discrepancy_index
           /\ writes' = writes + 1
           /\ active' = Selected(index, previous_chosen_bit)
           /\ index' = index + 1
    /\ UNCHANGED <<pinVars, padVars, memVars, bus, plugged, cmd, pc, out, sent, line, romVars, state, finished,
                   address, discrepancies, searches, items, codecVars>>

\* the block at the last discrepancy: the other branch is taken this time
DiscrepancyRound ==
    /\ pc = "follow"
    /\ index = state.last_discrepancy_index
    /\ LET false_bit == ~LineBit(index)
           true_bit == ~LineComplement(index)
       IN  /\ reads' = reads + 2
           /\ pair' = <<LineBit(index), LineComplement(index)>>
           /\ IF ~(false_bit /\ true_bit)
              THEN /\ DevicesMatch(Err(UnexpectedResponse))
                   /\ pc' = "idle"
                   /\ UNCHANGED <<writes, active, index, address, discrepancies>>
              ELSE /\ address' = OtherBranch(state)
                   /\ writes' = writes + 1
                   /\ active' = Selected(index, TRUE)
                   /\ discrepancies' = KeptDiscrepancies(state)
                   /\ index' = state.last_discrepancy_index + 1
                   /\ pc' = "scan"
                   /\ UNCHANGED <<state, finished, searches, items>>
    /\ UNCHANGED <<pinVars, padVars, memVars, bus, plugged, cmd, out, sent, line, romVars,
                   last_discrepancy_index, codecVars>>

\* one turn of for bit_index in continue_start_bit..64
ScanRound ==
    /\ pc = "scan"
    /\ index < BITS64
    /\ LET false_bit == ~LineBit(index)
           true_bit == ~LineComplement(index)
           chosen_bit == ChosenBit(false_bit, true_bit)
       IN  /\ reads' = reads + 2
           /\ pair' = <<LineBit(index), LineComplement(index)>>
           /\ IF ~false_bit /\ ~true_bit
              THEN /\ DevicesMatch(Err(UnexpectedResponse))
                   /\ pc' = "idle"
                   /\ UNCHANGED <<writes, active, index, address, discrepancies,
                                  last_discrepancy_index>>
              ELSE /\ IF false_bit /\ true_bit
                      THEN /\ discrepancies' = discrepancies \cup {index}
                           /\ last_discrepancy_index' = index
                      ELSE UNCHANGED <<discrepancies, last_discrepancy_index>>
                   /\ address' = IF chosen_bit THEN address \cup {index}
                                               ELSE address \ {index}
                   /\ writes' = writes + 1
                   /\ active' = Selected(index, chosen_bit)
                   /\ index' = index + 1
                   /\ UNCHANGED <<pc, state, finished, searches, items>>
    /\ UNCHANGED <<pinVars, padVars, memVars, bus, plugged, cmd, out, sent, line, romVars, codecVars>>

\* after the loops: the CRC check of address.to_le_bytes(), then
\* Ok(Some((Address(address), SearchState { .. })))
ScanFinish ==
    /\ pc = "scan"
    /\ index = BITS64
    /\ IF Check(ToLeBytes(address)).tag # "Ok"
       THEN DevicesMatch(Check(ToLeBytes(address)))
       ELSE DevicesMatch(Ok(Some(<<address,
                [address |-> address,
                 discrepancies |-> discrepancies,
                 last_discrepancy_index |-> last_discrepancy_index]>>)))
    /\ pc' = "idle"
    /\ UNCHANGED <<pinVars, padVars, memVars, bus, plugged, active, cmd, index, out, reads, writes, sent,
                   line, pair, romVars, address, discrepancies,
                   last_discrepancy_index, codecVars>>

NextDevices ==
    \/ DevicesNext
    \/ DevicesNextFinished
    \/ FollowRound
    \/ DiscrepancyRound
    \/ ScanRound
    \/ ScanFinish
    \/ Disconnect

SpecDevices == Init /\ [][NextDevices]_vars

----------------------------------------------------------------------------
(* The checksum and the Rom codec run on sampled inputs.                   *)

\* the vector of the test of crc8.rs, without and with its checksum
TestVector == <<99, 1, 75, 70, 127, 255, 13, 16>>

\* byte values the sampled sequences are made of
SampleBytes == {0, 1, 40, 140, 255}

\* 8-byte arrays: the pool's ROM codes, and each with one byte changed
RomArrays ==
    {ToLeBytes(d) : d \in Pool}
        \cup {[ToLeBytes(d) EXCEPT ![k] = (@ + 1) % 256] : d \in Pool, k \in 1..8}
        \cup {<<40, 255, 255, 255, 255, 255, 255, 12>>}

Inputs ==
    UNION {[1..n -> SampleBytes] : n \in 0..MaxLen}
        \cup {<<b>> : b \in 0..255}
        \cup {TestVector, Append(TestVector, 21)}
        \cup {<<97, 1, 75, 70, 127, 255, 15, 16>>, <<95, 1, 75, 70, 127, 255, 1, 16>>}
        \cup RomArrays

NoByte == 256

\* crc = calculate(&data)
DoCalculate ==
    /\ crc = NoByte
    /\ crc' = Calculate(data)
    /\ UNCHANGED <<pinVars, padVars, memVars, data, appended, chk, decoded, encoded, busVars, romVars, devVars>>

\* the checksum is appended to the data, as in the tests of crc8.rs
DoAppend ==
    /\ crc # NoByte
    /\ ~appended
    /\ chk = NoResult
    /\ decoded = NoResult
    /\ data' = Append(data, crc)
    /\ crc' = NoByte
    /\ appended' = TRUE
    /\ UNCHANGED <<pinVars, padVars, memVars, chk, decoded, encoded, busVars, romVars, devVars>>

\* chk = check(&data)
DoCheck ==
    /\ chk = NoResult
    /\ chk' = Check(data)
    /\ UNCHANGED <<pinVars, padVars, memVars, data, appended, crc, decoded, encoded, busVars, romVars, devVars>>

\* decoded = Rom::try_from(data) for an 8-byte array
DoTryFromBytes ==
    /\ Len(data) = 8
    /\ decoded = NoResult
    /\ decoded' = RomTryFromBytes(data)
    /\ UNCHANGED <<pinVars, padVars, memVars, data, appended, crc, chk, encoded, busVars, romVars, devVars>>

\* decoded = Rom::try_from(u64::from_le_bytes(data))
DoTryFromU64 ==
    /\ Len(data) = 8
    /\ decoded = NoResult
    /\ decoded' = RomTryFromU64(FromLeBytes(data))
    /\ UNCHANGED <<pinVars, padVars, memVars, data, appended, crc, chk, encoded, busVars, romVars, devVars>>

\* encoded = <[u8; 8]>::from(rom) for a decoded rom
DoIntoBytes ==
    /\ decoded.tag = "Ok"
    /\ encoded = <<>>
    /\ encoded' = RomIntoBytes(decoded.val)
    /\ UNCHANGED <<pinVars, padVars, memVars, data, appended, crc, chk, decoded, busVars, romVars, devVars>>

\* encoded = u64::from(rom).to_le_bytes() for a decoded rom
DoIntoU64 ==
    /\ decoded.tag = "Ok"
    /\ encoded = <<>>
    /\ encoded' = ToLeBytes(RomIntoU64(decoded.val))
    /\ UNCHANGED <<pinVars, padVars, memVars, data, appended, crc, chk, decoded, busVars, romVars, devVars>>

\* the encoded bytes are decoded again
DoRoundTrip ==
    /\ encoded # <<>>
    /\ pc = "idle"
    /\ out' = RomTryFromBytes(encoded)
    /\ pc' = "done"
    /\ UNCHANGED <<pinVars, padVars, memVars, codecVars, bus, plugged, active, cmd, index, reads, writes,
                   sent, line, pair, romVars, devVars>>

InitCodecInputs ==
    /\ data \in Inputs
    /\ crc = NoByte
    /\ appended = FALSE
    /\ chk = NoResult
    /\ decoded = NoResult
    /\ encoded = <<>>

InitIdleBus ==
    /\ bus = {}
    /\ plugged = TRUE
    /\ active = {}
    /\ cmd = "none"
    /\ pc = "idle"
    /\ index = 0
    /\ out = NoResult
    /\ reads = 0
    /\ writes = 0
    /\ sent = <<>>
    /\ line = "high"
    /\ pair = <<>>

NextCodec ==
    \/ DoCalculate
    \/ DoAppend
    \/ DoCheck
    \/ DoTryFromBytes
    \/ DoTryFromU64
    \/ DoIntoBytes
    \/ DoIntoU64
    \/ DoRoundTrip

InitCodecRun ==
    InitIdleBus /\ InitRom /\ InitDev /\ InitCodecInputs /\ InitPad /\ InitMem /\ InitPin

SpecCodec == InitCodecRun /\ [][NextCodec]_vars

----------------------------------------------------------------------------
(* Claims about the checksum and the Rom codec, checked under SpecCodec.   *)

\* C8: calculate(d ++ [calculate(d)]) == 0 for every sampled d, and
\* calculate([99,1,75,70,127,255,13,16]) == 21, with 21 appended 0.
C8_AppendedChecksumGivesZero ==
    /\ (appended /\ crc # NoByte) => crc = 0
    /\ (data = TestVector /\ crc # NoByte) => crc = 21
    /\ (data = Append(TestVector, 21) /\ crc # NoByte) => crc = 0

C8_Witness ==
    /\ appended
    /\ data = Append(TestVector, 21)
    /\ crc = 0

\* C9: check(data) is Ok exactly when calculate(data) is 0, and otherwise
\* the error MismatchedCrc carrying the non-zero remainder calculate(data).
C9_CheckAgreesWithCalculate ==
    (chk # NoResult /\ crc # NoByte) =>
        /\ chk.tag = "Ok" <=> crc = 0
        /\ crc # 0 => chk = Err(MismatchedCrc(crc))

C9_Witness ==
    /\ crc \notin {0, NoByte}
    /\ Len(data) = 8
    /\ chk = Err(MismatchedCrc(crc))
    /\ crc # data[Len(data)]

\* C10: a Rom decoded from a CRC-valid array b encodes back to b, as bytes
\* and through its u64 value; decoding that encoding gives the same Rom;
\* byte 0 is the family code, bytes 1..=6 the serial number, byte 7 the CRC.
C10_RomRoundTrip ==
    /\ decoded.tag = "Ok" =>
           /\ decoded.val.family_code = data[1]
           /\ decoded.val.serial_number = SubSeq(data, 2, 7)
           /\ decoded.val.crc = data[8]
    /\ (decoded.tag = "Ok" /\ encoded # <<>>) => encoded = data
    /\ out # NoResult => out = decoded
    /\ (decoded # NoResult /\ crc = 0) => decoded.tag = "Ok"

C10_Witness ==
    /\ data = <<40, 255, 255, 255, 255, 255, 255, 12>>
    /\ decoded.tag = "Ok"
    /\ encoded = data
    /\ out = decoded

----------------------------------------------------------------------------
(* Claims about device_search and Devices, checked under SpecDevices.      *)

\* item k of Devices::next is Some(Ok(address))
IsOkItem(k) == items[k].some /\ items[k].val.tag = "Ok"

\* call k of device_search returned Ok(Some((address, state)))
Found(k) == searches[k].tag = "Ok" /\ searches[k].val.some
FoundAddress(k) == searches[k].val.val[1]
FoundState(k) == searches[k].val.val[2]

\* a < b as u64 values: at the highest bit where they differ, b has the 1
LessU64(a, b) ==
    \E i \in b \ a : \A j \in (i + 1)..(BITS64 - 1) : (j \in a) <=> (j \in b)

\* a before b reading from bit 0 up: at the lowest bit where they differ,
\* b has the 1
LessLsbFirst(a, b) ==
    \E i \in b \ a : \A j \in 0..(i - 1) : (j \in a) <=> (j \in b)

\* the position at which two devices collide: the lowest bit they differ in
ConflictBit(devices) ==
    CHOOSE i \in 0..(BITS64 - 1) :
        /\ \E d, e \in devices : (i \in d) /\ (i \notin e)
        /\ \A j \in 0..(i - 1) : \A d, e \in devices : (j \in d) <=> (j \in e)

\* C1: on a static bus with N >= 1 devices, Devices::next yields N Ok
\* items, every device's address exactly once and nothing else, and None
\* from then on.
C1_DevicesEnumeratesTheBus ==
    (plugged /\ bus # {}) =>
        LET n == Cardinality(bus)
        IN  /\ \A k \in 1..Len(items) :
                   IF k <= n
                   THEN IsOkItem(k) /\ items[k].val.val \in bus
                   ELSE items[k] = None
            /\ \A j, k \in 1..Len(items) :
                   (j < k /\ k <= n) => items[j].val.val # items[k].val.val
            /\ finished => Len(items) > n

C1_Witness ==
    /\ plugged
    /\ Cardinality(bus) = 3
    /\ Len(items) = 4
    /\ {items[k].val.val : k \in 1..3} = bus
    /\ items[4] = None
    /\ finished

C3_TwoDevicesTwoPasses ==
    (plugged /\ Cardinality(bus) = 2) =>
        /\ Len(searches) >= 1 =>
               /\ Found(1)
               /\ FoundAddress(1) \in bus
               /\ FoundState(1).discrepancies = {ConflictBit(bus)}
        /\ Len(searches) >= 2 =>
               /\ Found(2)
               /\ FoundAddress(2) \in bus \ {FoundAddress(1)}
               /\ FoundState(2).discrepancies = {}
        /\ Len(searches) >= 3 => searches[3] = Ok(None)

C3_Witness ==
    /\ plugged
    /\ Cardinality(bus) = 2
    /\ Len(searches) = 3
    /\ {FoundAddress(1), FoundAddress(2)} = bus
    /\ FoundState(1).discrepancies = {ConflictBit(bus)}
    /\ searches[3] = Ok(None)

----------------------------------------------------------------------------
(* Claims about SearchRom, checked under Spec.                             *)

\* a SearchRom function has returned
Returned(f) == cmd = f /\ pc = "done"

\* C4 (as claimed): with exactly one device a on the bus and conflicts = 0,
\* SearchRom::execute returns Ok(a): the address assembled over the 64
\* rounds is the device's address.
C4_ExecuteReturnsTheDevice ==
    (plugged /\ Returned("execute") /\ conflicts = {} /\ Cardinality(bus) = 1)
        => /\ out.tag = "Ok"
           /\ {RomIntoU64(out.val)} = bus

\* C5 (as claimed): on a static bus, once the conflict mask is zero after a
\* search pass, every device has been the single device left selected at
\* the end of some pass, and no device was selected by two passes.
C5_ZeroMaskMeansAllFound ==
    (plugged /\ Returned("search") /\ conflicts = {})
        => /\ \A d \in bus : \E k \in 1..Len(picked) : picked[k] = {d}
           /\ \A j, k \in 1..Len(picked) : j # k => picked[j] # picked[k]

\* C6: a SearchRom pass whose reset samples no presence pulse (the line is
\* high at the sample point) returns NoAttachedDevices and has issued no
\* write slot (so no 0xF0) and no read slot.
C6_NoPresenceNoBusTraffic ==
    (cmd \in {"execute", "search"} /\ line = "high")
        => /\ pc = "done"
           /\ out = Err(NoAttachedDevices)
           /\ sent = <<>>
           /\ writes = 0
           /\ reads = 0

C6_Witness ==
    /\ Returned("execute")
    /\ line = "high"
    /\ out = Err(NoAttachedDevices)
    /\ bus # {}

\* C7: when the two reads of a position both sample 1, the pass has ended
\* with NoAttachedDevices there: no bit was written for that position (the
\* write slots are the 8 of the command byte and one per earlier position),
\* the position's reads were the last ones, and no address is returned.
C7_SilenceEndsThePass ==
    (cmd \in {"execute", "search"} /\ pair = <<TRUE, TRUE>>)
        => /\ pc = "done"
           /\ out = Err(NoAttachedDevices)
           /\ index < BITS64
           /\ writes = BITS8 + index
           /\ reads = 2 * (index + 1)

C7_Witness ==
    /\ Returned("search")
    /\ pair = <<TRUE, TRUE>>
    /\ index = 17
    /\ out = Err(NoAttachedDevices)

----------------------------------------------------------------------------
(* More claims about the Rom codec, checked under SpecCodec.               *)

\* C11: Rom::try_from on 8 bytes (or on a u64, through its little-endian
\* bytes) fails with the checksum-mismatch error whenever the CRC8 of the 8
\* bytes is non-zero and succeeds whenever it is zero, so the bytes of every
\* Rom so constructed have CRC8 zero.
C11_RomConstructionChecksCrc ==
    /\ (Len(data) = 8 /\ decoded # NoResult /\ crc # NoByte) =>
           /\ crc # 0 => decoded = Err(MismatchedCrc(crc))
           /\ crc = 0 => decoded.tag = "Ok"
    /\ (decoded.tag = "Ok" /\ encoded # <<>>) => Calculate(encoded) = 0

C11_Witness ==
    /\ Len(data) = 8
    /\ crc \notin {0, NoByte}
    /\ decoded = Err(MismatchedCrc(crc))

----------------------------------------------------------------------------
(* scratchpad.rs                                                           *)

NINE == 31
TEN == 63
ELEVEN == 95
TWELVE == 127

Resolutions == {"Nine", "Ten", "Eleven", "Twelve"}

UnexpectedConfigurationRegister(b) ==
    [kind |-> "UnexpectedConfigurationRegister", configuration_register |-> b]

\* mutant: the reserved bit 7 of the register is ignored
ConfigurationRegisterTryFromMasked(value) ==
    IF value % 128 = NINE THEN Ok([resolution |-> "Nine"])
    ELSE IF value % 128 = TEN THEN Ok([resolution |-> "Ten"])
    ELSE IF value % 128 = ELEVEN THEN Ok([resolution |-> "Eleven"])
    ELSE IF value % 128 = TWELVE THEN Ok([resolution |-> "Twelve"])
    ELSE Err(UnexpectedConfigurationRegister(value))

\* TryFrom<u8> for ConfigurationRegister
ConfigurationRegisterTryFrom(value) ==
    IF value = NINE THEN Ok([resolution |-> "Nine"])
    ELSE IF value = TEN THEN Ok([resolution |-> "Ten"])
    ELSE IF value = ELEVEN THEN Ok([resolution |-> "Eleven"])
    ELSE IF value = TWELVE THEN Ok([resolution |-> "Twelve"])
    ELSE Err(UnexpectedConfigurationRegister(value))

\* From<ConfigurationRegister> for u8
U8FromConfigurationRegister(value) ==
    IF value.resolution = "Nine" THEN NINE
    ELSE IF value.resolution = "Ten" THEN TEN
    ELSE IF value.resolution = "Eleven" THEN ELEVEN
    ELSE TWELVE

\* mutant: the two bytes taken in little-endian order
I16FromLeBytes(msb, lsb) ==
    IF lsb >= 128 THEN (lsb - 256) * 256 + msb ELSE lsb * 256 + msb

\* i16::from_be_bytes([msb, lsb]): bit 7 of msb is the sign
I16FromBeBytes(msb, lsb) ==
    IF msb >= 128 THEN (msb - 256) * 256 + lsb ELSE msb * 256 + lsb

\* the divider of to_temperature
Divider(resolution) ==
    IF resolution = "Nine" THEN 2
    ELSE IF resolution = "Ten" THEN 4
    ELSE IF resolution = "Eleven" THEN 8
    ELSE 16

\* to_temperature(msb, lsb, resolution), the f32 given by its number of
\* sixteenths of a degree: an i16 and its quotient by 2, 4, 8 or 16 are
\* exact in f32
ToTemperature(msb, lsb, resolution) ==
    I16FromBeBytes(msb, lsb) * (16 \div Divider(resolution))

\* value as i8
ToI8(value) == IF value >= 128 THEN value - 256 ELSE value

\* mutant: the configuration register is decoded before the checksum is
\* checked
ScratchpadTryFromRegisterFirst(value) ==
    IF ConfigurationRegisterTryFrom(value[5]).tag # "Ok"
    THEN ConfigurationRegisterTryFrom(value[5])
    ELSE IF Check(value).tag # "Ok" THEN Check(value)
    ELSE Ok([temperature |->
                 ToTemperature(value[2], value[1],
                     ConfigurationRegisterTryFrom(value[5]).val.resolution),
             triggers |-> [high |-> ToI8(value[3]), low |-> ToI8(value[4])],
             configuration_register |-> ConfigurationRegisterTryFrom(value[5]).val,
             crc |-> value[9]])

\* TryFrom<[u8; 9]> for Scratchpad
ScratchpadTryFrom(value) ==
    IF Check(value).tag # "Ok" THEN Check(value)
    ELSE IF ConfigurationRegisterTryFrom(value[5]).tag # "Ok"
    THEN ConfigurationRegisterTryFrom(value[5])
    ELSE Ok([temperature |->
                 ToTemperature(value[2], value[1],
                     ConfigurationRegisterTryFrom(value[5]).val.resolution),
             triggers |-> [high |-> ToI8(value[3]), low |-> ToI8(value[4])],
             configuration_register |-> ConfigurationRegisterTryFrom(value[5]).val,
             crc |-> value[9]])

----------------------------------------------------------------------------
(* The scratchpad decoders run on sampled 9-byte scratchpad images.        *)

\* <<msb, lsb>> of the temperature register: the vectors of the test of
\* scratchpad.rs and the two ends of the i16 range
TemperaturePairs ==
    {<<7, 208>>, <<5, 80>>, <<1, 145>>, <<0, 162>>, <<0, 8>>, <<0, 0>>,
     <<255, 248>>, <<255, 94>>, <<254, 111>>, <<252, 144>>,
     <<127, 255>>, <<128, 0>>}

\* the image of a scratchpad: temperature LSB, MSB, TH, TL, configuration
\* register, three reserved bytes, CRC8 of the first eight
Image(msb, lsb, th, tl, cfg) ==
    LET first == <<lsb, msb, th, tl, cfg, 255, 12, 16>>
    IN  Append(first, Calculate(first))

\* the image with a wrong CRC byte
Corrupted(image) == [image EXCEPT ![9] = (@ + 1) % 256]

PadImages ==
    LET good == {Image(t[1], t[2], 75, 70, c) :
                     t \in TemperaturePairs, c \in {NINE, TEN, ELEVEN, TWELVE}}
                \cup {Image(1, 145, 200, 255, c) : c \in 0..255}
    IN  good \cup {Corrupted(image) : image \in good}

\* register = ConfigurationRegister::try_from(data[4])
DoRegisterTryFrom ==
    /\ register = NoResult
    /\ register' = ConfigurationRegisterTryFrom(data[5])
    /\ UNCHANGED <<pinVars, reg_byte, temperature, scratchpad, busVars, romVars, devVars,
                   codecVars, memVars>>

\* reg_byte = u8::from(register)
DoRegisterInto ==
    /\ register.tag = "Ok"
    /\ reg_byte = <<>>
    /\ reg_byte' = <<U8FromConfigurationRegister(register.val)>>
    /\ UNCHANGED <<pinVars, register, temperature, scratchpad, busVars, romVars, devVars,
                   codecVars, memVars>>

\* temperature = to_temperature(data[1], data[0], resolution)
DoToTemperature ==
    /\ temperature = <<>>
    /\ \E resolution \in Resolutions :
           temperature' = <<resolution, ToTemperature(data[2], data[1], resolution)>>
    /\ UNCHANGED <<pinVars, register, reg_byte, scratchpad, busVars, romVars, devVars,
                   codecVars, memVars>>

\* scratchpad = Scratchpad::try_from(data)
DoScratchpadTryFrom ==
    /\ scratchpad = NoResult
    /\ scratchpad' = ScratchpadTryFrom(data)
    /\ UNCHANGED <<pinVars, register, reg_byte, temperature, busVars, romVars, devVars,
                   codecVars, memVars>>

InitPadInputs ==
    /\ data \in PadImages
    /\ crc = NoByte
    /\ appended = FALSE
    /\ chk = NoResult
    /\ decoded = NoResult
    /\ encoded = <<>>

InitScratchpadRun ==
    InitIdleBus /\ InitRom /\ InitDev /\ InitPadInputs /\ InitPad /\ InitMem /\ InitPin

NextScratchpad ==
    \/ DoRegisterTryFrom
    \/ DoRegisterInto
    \/ DoToTemperature
    \/ DoScratchpadTryFrom

SpecScratchpad == InitScratchpadRun /\ [][NextScratchpad]_vars

----------------------------------------------------------------------------
(* Claims about the scratchpad decoders, checked under SpecScratchpad.     *)

\* C12: 0x1F, 0x3F, 0x5F, 0x7F decode to the resolutions Nine, Ten, Eleven,
\* Twelve and encode back to the same byte; every other byte fails with
\* UnexpectedConfigurationRegister carrying that byte.
C12_ConfigurationRegisterRoundTrip ==
    /\ register # NoResult =>
           /\ data[5] = 31 => register = Ok([resolution |-> "Nine"])
           /\ data[5] = 63 => register = Ok([resolution |-> "Ten"])
           /\ data[5] = 95 => register = Ok([resolution |-> "Eleven"])
           /\ data[5] = 127 => register = Ok([resolution |-> "Twelve"])
           /\ data[5] \notin {31, 63, 95, 127} =>
                  register = Err([kind |-> "UnexpectedConfigurationRegister",
                                  configuration_register |-> data[5]])
    /\ reg_byte # <<>> => reg_byte = <<data[5]>>

C12_Witness ==
    /\ data[5] = 95
    /\ register = Ok([resolution |-> "Eleven"])
    /\ reg_byte = <<95>>

\* C13: to_temperature(msb, lsb, resolution) is the sign-extended 16-bit
\* value msb*256 + lsb divided by 2, 4, 8, 16 for Nine, Ten, Eleven, Twelve;
\* in sixteenths of a degree, at Twelve (0x07,0xD0) is 2000 (125.0),
\* (0xFF,0xF8) is -8 (-0.5) and (0xFC,0x90) is -880 (-55.0).
C13_TemperatureIsSignedQuotient ==
    temperature # <<>> =>
        LET raw == data[2] * 256 + data[1]
            signed == IF raw >= 32768 THEN raw - 65536 ELSE raw
            divisor == CASE temperature[1] = "Nine" -> 2
                         [] temperature[1] = "Ten" -> 4
                         [] temperature[1] = "Eleven" -> 8
                         [] temperature[1] = "Twelve" -> 16
        IN  /\ temperature[2] * divisor = signed * 16
            /\ (temperature[1] = "Twelve" /\ data[2] = 7 /\ data[1] = 208)
                   => temperature[2] = 2000
            /\ (temperature[1] = "Twelve" /\ data[2] = 255 /\ data[1] = 248)
                   => temperature[2] = -8
            /\ (temperature[1] = "Twelve" /\ data[2] = 252 /\ data[1] = 144)
                   => temperature[2] = -880

C13_Witness ==
    /\ data[2] = 252
    /\ data[1] = 144
    /\ temperature = <<"Twelve", -880>>

----------------------------------------------------------------------------
(* lib.rs: bit and byte operations of the Driver.  The slots wait for the  *)
(* intervals A..F of the timing profile; in nanoseconds here.              *)

\* read_bit: set_low, wait(A), set_high, wait(E), is_high, wait(F)
ReadBitDelay(profile) == profile.a + profile.e + profile.f

\* mutant: the high phases of the two write slots are exchanged
WriteBitDelayHighSwapped(profile, bit) ==
    IF bit THEN profile.a + profile.d ELSE profile.c + profile.b

\* write_bit(bit): set_low, wait(A or C), set_high, wait(B or D)
WriteBitDelay(profile, bit) ==
    IF bit THEN profile.a + profile.b ELSE profile.c + profile.d

\* mutant: the byte is shifted out most significant bit first
WriteByteBitsMsbFirst(byte) == [k \in 1..8 |-> BitOf(byte, 8 - k) = 1]

\* write_byte(byte): the bits handed to write_bit, in order:
\* byte & 0x01 == 0x01, then byte >>= 1
WriteByteBits(byte) == [k \in 1..8 |-> BitOf(byte, k - 1) = 1]

\* write_bytes(bytes): the bits of all the bytes, in order
RECURSIVE WriteBytesBits(_)
WriteBytesBits(bs) ==
    IF bs = <<>> THEN <<>>
    ELSE WriteByteBits(Head(bs)) \o WriteBytesBits(Tail(bs))

\* mutant: the bits read are shifted in from the low end
ReadByteValueMsbFirst(bits) ==
    LET v(k) == IF bits[k] THEN Pow2(8 - k) ELSE 0
    IN  v(1) + v(2) + v(3) + v(4) + v(5) + v(6) + v(7) + v(8)

\* read_byte: per bit read, byte >>= 1 and byte |= 0x80 if it is 1, so the
\* bit read first ends as bit 0
ReadByteValue(bits) ==
    LET v(k) == IF bits[k] THEN Pow2(k - 1) ELSE 0
    IN  v(1) + v(2) + v(3) + v(4) + v(5) + v(6) + v(7) + v(8)

\* Driver::wait(us): delay_us(us)
Wait(us) == us * 1000

\* the delay helper of the revision of commands/mod.rs, which is handed
\* the intervals of Configuration (nanoseconds)
Delay(ns) == ns

----------------------------------------------------------------------------
(* The memory and ROM commands: command/memory.rs, commands/memory.rs,     *)
(* commands.rs and commands/rom.rs, run against a simulated device.        *)

COMMAND_MEMORY_RECALL == 184
COMMAND_MEMORY_SCRATCHPAD_COPY == 72
COMMAND_MEMORY_SCRATCHPAD_READ == 190
COMMAND_MEMORY_SCRATCHPAD_WRITE == 78
COMMAND_ROM_READ == 51
COMMAND_ROM_MATCH == 85
COMMAND_ROM_SKIP == 204
READ_SLOT_DURATION_MICROS == 70

Timeout == [kind |-> "Timeout"]

\* mutant: the budget without the extra slot
MaxRetriesNoExtra == 10000 \div READ_SLOT_DURATION_MICROS

\* let max_retries = (10000 / READ_SLOT_DURATION_MICROS) + 1
MaxRetries == (10000 \div READ_SLOT_DURATION_MICROS) + 1

RecallImpls == {"RecallE2::execute", "recall_eeprom"}
CopyImpls == {"CopyScratchpad::execute", "copy_scratchpad"}
ReadImpls == {"ReadScratchpad::execute", "read_scratchpad"}
WriteImpls == {"WriteScratchpad::execute", "Write::execute", "write_scratchpad"}

\* value as u8, for an i8 value
ToU8(value) == (value + 256) % 256

\* resolution as u8: the discriminant of the enum Resolution
ResolutionAsU8(resolution) ==
    IF resolution = "Nine" THEN 0
    ELSE IF resolution = "Ten" THEN 1
    ELSE IF resolution = "Eleven" THEN 2
    ELSE 3

\* the three bytes written after the command byte, in the order written:
\* write_scratchpad writes triggers.high, triggers.low and
\* configuration_register.into(); WriteScratchpad::execute and
\* Write::execute write triggers.low, triggers.high and resolution as u8
WriteScratchpadBytes(f, a) ==
    IF f = "write_scratchpad"
    THEN <<ToU8(a.triggers.high), ToU8(a.triggers.low),
           U8FromConfigurationRegister(a.configuration_register)>>
    ELSE <<ToU8(a.triggers.low), ToU8(a.triggers.high),
           ResolutionAsU8(a.configuration_register.resolution)>>

\* the wait of the Copy Scratchpad implementations: driver.wait(10000) in
\* CopyScratchpad::execute, self.delay(10000) in copy_scratchpad
CopyWaitOf(f) == IF f = "copy_scratchpad" THEN Delay(10000) ELSE Wait(10000)

\* the devices answer the read slots that follow Recall E2 with 0 for the
\* first busy slots and with 1 from then on; a line nobody pulls is high
RecallAnswer(n) == ~(plugged /\ bus # {} /\ n <= busy)

\* the level of read slot n (from 0) after Read Scratchpad: the addressed
\* device sends its scratchpad, each byte least significant bit first
PadBit(n) ==
    IF plugged /\ bus # {} THEN BitOf(pad[(n \div 8) + 1], n % 8) = 1 ELSE TRUE

\* the level of read slot n (from 0) of the running command
TransmittedBit(n) == IF cmd = "ReadRom::execute" THEN LineBit(n) ELSE PadBit(n)

\* the number of bytes the running command reads
Wanted == IF cmd = "ReadRom::execute" THEN 8 ELSE 9

\* the lengths of the write slots of a sequence of bits
WriteDelays(bits) ==
    {WriteBitDelay(configuration, bits[k]) : k \in 1..Len(bits)}

\* the start of a command: write_bytes(bs), nothing read yet.  One command
\* is followed per run: the Driver keeps nothing from one command to the
\* next
Begin(f, bs) ==
    /\ pc = "idle"
    /\ cmd' = f
    /\ out' = NoResult
    /\ reads' = 0
    /\ index' = 0
    /\ pair' = <<>>
    /\ sent' = bs
    /\ writes' = BITS8 * Len(bs)
    /\ wire' = WriteBytesBits(bs)
    /\ durations' = WriteDelays(WriteBytesBits(bs))
    /\ waits' = <<>>
    /\ buffer' = <<>>
    /\ samples' = <<>>
    /\ UNCHANGED <<pinVars, bus, plugged, configuration, pad, busy, romVars, devVars,
                   codecVars, padVars>>

\* RecallE2::execute / recall_eeprom: write_byte(COMMAND_MEMORY_RECALL)
RecallStart ==
    /\ \E f \in RecallImpls : Begin(f, <<COMMAND_MEMORY_RECALL>>)
    /\ pc' = "poll"
    /\ active' = {}
    /\ arg' = NoResult
    /\ UNCHANGED line

\* one turn of for _ in 0..max_retries: a read slot, Ok(()) if it is 1
RecallPoll ==
    /\ pc = "poll"
    /\ index < MaxRetries
    /\ LET bit == RecallAnswer(reads + 1)
       IN  /\ reads' = reads + 1
           /\ samples' = Append(samples, bit)
           /\ durations' = durations \cup {ReadBitDelay(configuration)}
           /\ IF bit
              THEN /\ out' = Ok(<<>>)
                   /\ pc' = "done"
                   /\ UNCHANGED index
              ELSE /\ index' = index + 1
                   /\ UNCHANGED <<out, pc>>
    /\ UNCHANGED <<pinVars, bus, plugged, active, cmd, writes, sent, line, pair,
                   configuration, waits, wire, pad, busy, arg, buffer,
                   romVars, devVars, codecVars, padVars>>

\* the loop is over: Err(Error::Timeout)
RecallTimeout ==
    /\ pc = "poll"
    /\ index = MaxRetries
    /\ out' = Err(Timeout)
    /\ pc' = "done"
    /\ UNCHANGED <<pinVars, bus, plugged, active, cmd, index, reads, writes, sent, line,
                   pair, memVars, romVars, devVars, codecVars, padVars>>

\* CopyScratchpad::execute / copy_scratchpad:
\* write_byte(COMMAND_MEMORY_SCRATCHPAD_COPY)
CopyStart ==
    /\ \E f \in CopyImpls : Begin(f, <<COMMAND_MEMORY_SCRATCHPAD_COPY>>)
    /\ pc' = "wait"
    /\ active' = {}
    /\ arg' = NoResult
    /\ UNCHANGED line

\* ... then the wait, then Ok(())
CopyWait ==
    /\ pc = "wait"
    /\ waits' = Append(waits, CopyWaitOf(cmd))
    /\ out' = Ok(<<>>)
    /\ pc' = "done"
    /\ UNCHANGED <<pinVars, bus, plugged, active, cmd, index, reads, writes, sent, line,
                   pair, configuration, durations, wire, pad, busy, arg, buffer,
                   samples, romVars, devVars, codecVars, padVars>>

\* the scratchpads handed to Write Scratchpad
ScratchpadArgs ==
    {[triggers |-> [high |-> h, low |-> l],
      configuration_register |-> [resolution |-> r]] :
        h \in {125, -55}, l \in {-10, 0}, r \in Resolutions}

\* WriteScratchpad::execute / write_scratchpad:
\* write_byte(COMMAND_MEMORY_SCRATCHPAD_WRITE)
WriteScratchpadStart ==
    /\ \E f \in {"WriteScratchpad::execute", "write_scratchpad"} :
           Begin(f, <<COMMAND_MEMORY_SCRATCHPAD_WRITE>>)
    /\ arg' \in ScratchpadArgs
    /\ pc' = "write"
    /\ active' = {}
    /\ UNCHANGED line

\* Write::execute with code = None: reset, the Skip ROM command, then
\* write_byte(COMMAND_MEMORY_SCRATCHPAD_WRITE)
WriteStart ==
    /\ Begin("Write::execute", <<COMMAND_ROM_SKIP, COMMAND_MEMORY_SCRATCHPAD_WRITE>>)
    /\ line' = IF PresencePulse THEN "low" ELSE "high"
    /\ arg' \in ScratchpadArgs
    /\ pc' = "write"
    /\ active' = {}

\* one of the three write_byte calls that follow; Ok(()) after the third
WriteScratchpadByte ==
    /\ pc = "write"
    /\ cmd \in WriteImpls
    /\ index < 3
    /\ LET byte == WriteScratchpadBytes(cmd, arg)[index + 1]
       IN  /\ sent' = Append(sent, byte)
           /\ writes' = writes + BITS8
           /\ wire' = wire \o WriteByteBits(byte)
           /\ durations' = durations \cup WriteDelays(WriteByteBits(byte))
    /\ index' = index + 1
    /\ IF index = 2
       THEN out' = Ok(<<>>) /\ pc' = "done"
       ELSE UNCHANGED <<out, pc>>
    /\ UNCHANGED <<pinVars, bus, plugged, active, cmd, reads, line, pair, configuration,
                   waits, pad, busy, arg, buffer, samples, romVars, devVars,
                   codecVars, padVars>>

\* MatchRom::execute: write_byte(COMMAND_ROM_MATCH)
MatchRomStart ==
    /\ Begin("MatchRom::execute", <<COMMAND_ROM_MATCH>>)
    /\ \E d \in Pool : arg' = RomTryFromU64(d).val
    /\ pc' = "write"
    /\ active' = {}
    /\ UNCHANGED line

\* ... then bytes = self.rom.into(), write_bytes(&bytes), Ok(())
MatchRomBytes ==
    /\ pc = "write"
    /\ cmd = "MatchRom::execute"
    /\ LET bs == RomIntoBytes(arg)
       IN  /\ sent' = sent \o bs
           /\ writes' = writes + BITS8 * Len(bs)
           /\ wire' = wire \o WriteBytesBits(bs)
           /\ durations' = durations \cup WriteDelays(WriteBytesBits(bs))
    /\ out' = Ok(<<>>)
    /\ pc' = "done"
    /\ UNCHANGED <<pinVars, bus, plugged, active, cmd, index, reads, line, pair,
                   configuration, waits, pad, busy, arg, buffer, samples,
                   romVars, devVars, codecVars, padVars>>

\* ReadScratchpad::execute / read_scratchpad:
\* write_byte(COMMAND_MEMORY_SCRATCHPAD_READ)
ReadScratchpadStart ==
    /\ \E f \in ReadImpls : Begin(f, <<COMMAND_MEMORY_SCRATCHPAD_READ>>)
    /\ pc' = "read"
    /\ active' = {}
    /\ arg' = NoResult
    /\ UNCHANGED line

\* ReadRom::execute: write_byte(COMMAND_ROM_READ); every device answers
ReadRomStart ==
    /\ Begin("ReadRom::execute", <<COMMAND_ROM_READ>>)
    /\ active' = bus
    /\ pc' = "read"
    /\ arg' = NoResult
    /\ UNCHANGED line

\* one turn of the loop of read_bytes: read_byte, eight read slots
ReadByteStep ==
    /\ pc = "read"
    /\ Len(buffer) < Wanted
    /\ LET bits == [k \in 1..8 |-> TransmittedBit(reads + k - 1)]
       IN  /\ buffer' = Append(buffer, ReadByteValue(bits))
           /\ samples' = samples \o bits
    /\ reads' = reads + BITS8
    /\ durations' = durations \cup {ReadBitDelay(configuration)}
    /\ UNCHANGED <<pinVars, bus, plugged, active, cmd, pc, index, out, writes, sent, line,
                   pair, configuration, waits, wire, pad, busy, arg, romVars,
                   devVars, codecVars, padVars>>

\* bytes.try_into() of the Read Scratchpad implementations
ReadScratchpadFinish ==
    /\ pc = "read"
    /\ cmd \in ReadImpls
    /\ Len(buffer) = Wanted
    /\ out' = ScratchpadTryFrom(buffer)
    /\ pc' = "done"
    /\ UNCHANGED <<pinVars, bus, plugged, active, cmd, index, reads, writes, sent, line,
                   pair, memVars, romVars, devVars, codecVars, padVars>>

\* bytes.try_into() of ReadRom::execute
ReadRomFinish ==
    /\ pc = "read"
    /\ cmd = "ReadRom::execute"
    /\ Len(buffer) = Wanted
    /\ out' = RomTryFromBytes(buffer)
    /\ pc' = "done"
    /\ UNCHANGED <<pinVars, bus, plugged, active, cmd, index, reads, writes, sent, line,
                   pair, memVars, romVars, devVars, codecVars, padVars>>

\* the device answers 0 for this many read slots after Recall E2; it is
\* ready within 10 ms, or it never answers 1
NeverReady == 1000
BusySamples == {0, 1, 2, 141, 142, 143, 144, NeverReady}

\* the scratchpad of the addressed device
DefaultPad == Image(1, 145, 75, 70, TWELVE)
PadSamples ==
    LET good == {Image(1, 145, 75, 70, c) : c \in {NINE, TEN, ELEVEN, TWELVE, 0, 159}}
                \cup {Image(255, 94, 200, 255, ELEVEN)}
    IN  good \cup {Corrupted(image) : image \in good}

\* the buses and devices the commands are run against
Benches ==
    {[bus |-> b, pad |-> DefaultPad, busy |-> 0, profile |-> Standard] : b \in Buses}
        \cup {[bus |-> {Device(1)}, pad |-> image, busy |-> 0, profile |-> Standard] :
                  image \in PadSamples}
        \cup {[bus |-> {Device(1)}, pad |-> DefaultPad, busy |-> n, profile |-> Standard] :
                  n \in BusySamples}
        \cup {[bus |-> {Device(1)}, pad |-> DefaultPad, busy |-> n, profile |-> Overdrive] :
                  n \in {1, NeverReady}}

InitBench ==
    /\ \E bench \in Benches :
           /\ configuration = bench.profile
           /\ bus = bench.bus
           /\ pad = bench.pad
           /\ busy = bench.busy
    /\ durations = {}
    /\ waits = <<>>
    /\ wire = <<>>
    /\ arg = NoResult
    /\ buffer = <<>>
    /\ samples = <<>>

InitCommandsRun ==
    InitBus /\ InitRom /\ InitDev /\ InitCodec /\ InitPad /\ InitBench /\ InitPin

NextCommands ==
    \/ RecallStart
    \/ RecallPoll
    \/ RecallTimeout
    \/ CopyStart
    \/ CopyWait
    \/ WriteScratchpadStart
    \/ WriteStart
    \/ WriteScratchpadByte
    \/ MatchRomStart
    \/ MatchRomBytes
    \/ ReadScratchpadStart
    \/ ReadRomStart
    \/ ReadByteStep
    \/ ReadScratchpadFinish
    \/ ReadRomFinish
    \/ Disconnect

SpecCommands == InitCommandsRun /\ [][NextCommands]_vars

----------------------------------------------------------------------------
(* Claims about the slots and the commands, checked under SpecCommands.    *)

\* C14 (as claimed): for each timing profile, standard and overdrive,
\* write_bit(true) (A + B), write_bit(false) (C + D) and read_bit
\* (A + E + F) take the same time, so all the slots of a call have one
\* length.
C14_SlotsHaveOneLength ==
    durations # {} =>
        /\ configuration.a + configuration.b = configuration.c + configuration.d
        /\ configuration.a + configuration.b
               = configuration.a + configuration.e + configuration.f
        /\ durations = {configuration.a + configuration.b}

\* C14 (amended): in the standard profile write_bit(true), write_bit(false)
\* and read_bit all take 70 us, so all the slots of a call have one length;
\* in the overdrive profile they take 8.5 us, 10 us and 9 us.
C14_StandardSlotsHaveOneLength ==
    /\ (configuration.h = 480000 /\ durations # {}) =>
           /\ configuration.a + configuration.b = 70000
           /\ configuration.c + configuration.d = 70000
           /\ configuration.a + configuration.e + configuration.f = 70000
           /\ durations = {70000}
    /\ configuration.h # 480000 =>
           /\ configuration.a + configuration.b = 8500
           /\ configuration.c + configuration.d = 10000
           /\ configuration.a + configuration.e + configuration.f = 9000
           /\ durations \subseteq {8500, 10000, 9000}

C14_Witness ==
    /\ configuration.h = 480000
    /\ cmd \in ReadImpls
    /\ reads = 72
    /\ \E k \in 1..8 : wire[k]
    /\ \E k \in 1..8 : ~wire[k]
    /\ durations = {70000}

\* C15: Recall writes 0xB8, then issues read slots one at a time; it
\* returns Ok right after the first slot that samples 1, if that is among
\* the first 143, and Timeout after exactly 143 slots that all sample 0.
\* A device answering 0 to 142 slots and 1 afterwards gives Ok, one that
\* never answers 1 gives Timeout.
C15_RecallPollsWithinBudget ==
    cmd \in RecallImpls =>
        /\ sent = <<184>>
        /\ writes = 8
        /\ Len(samples) = reads
        /\ \A k \in 1..(reads - 1) : ~samples[k]
        /\ reads <= 143
        /\ pc = "poll" => \A k \in 1..reads : ~samples[k]
        /\ pc = "done" =>
               /\ out = Ok(<<>>) <=> samples[reads]
               /\ out # Ok(<<>>) => (out = Err([kind |-> "Timeout"]) /\ reads = 143)
               /\ (plugged /\ busy = 142) => (out = Ok(<<>>) /\ reads = 143)
               /\ (plugged /\ busy > 142) => out = Err([kind |-> "Timeout"])

C15_Witness ==
    /\ cmd \in RecallImpls
    /\ pc = "done"
    /\ plugged
    /\ busy = 142
    /\ reads = 143
    /\ out = Ok(<<>>)

\* C16 (as claimed): Copy Scratchpad writes 0x48, then makes one delay of
\* 10 ms (10,000,000 ns), with no read slot and no further write slot, and
\* returns Ok whatever the bus does; in every implementation.
C16_CopyWaitsTenMilliseconds ==
    (cmd \in CopyImpls /\ pc = "done") =>
        /\ sent = <<72>>
        /\ writes = 8
        /\ reads = 0
        /\ waits = <<10000000>>
        /\ out = Ok(<<>>)

\* C17 (as claimed): Write Scratchpad writes 0x4E, then exactly three
\* bytes: the high trigger, the low trigger and the configuration register
\* byte of the resolution (0x1F, 0x3F, 0x5F, 0x7F), with no read slot; in
\* every implementation.
C17_WriteScratchpadOrder ==
    (cmd \in WriteImpls /\ pc = "done") =>
        LET written == IF cmd = "Write::execute" THEN Tail(sent) ELSE sent
            register_byte ==
                CASE arg.configuration_register.resolution = "Nine" -> 31
                  [] arg.configuration_register.resolution = "Ten" -> 63
                  [] arg.configuration_register.resolution = "Eleven" -> 95
                  [] arg.configuration_register.resolution = "Twelve" -> 127
        IN  /\ written = <<78, (arg.triggers.high + 256) % 256,
                           (arg.triggers.low + 256) % 256, register_byte>>
            /\ reads = 0
            /\ out = Ok(<<>>)

\* C18: Read Scratchpad writes 0xBE and reads exactly 9 bytes; it returns
\* Ok only if their CRC8 is zero and byte 4 is 0x1F, 0x3F, 0x5F or 0x7F; a
\* non-zero CRC gives the checksum-mismatch error, also when byte 4 is
\* invalid; otherwise an invalid byte 4 gives the invalid-configuration
\* error; on success triggers.high is byte 2, triggers.low byte 3 and crc
\* byte 8.
C18_ReadScratchpadValidates ==
    (cmd \in ReadImpls /\ pc = "done") =>
        LET remainder == Calculate(buffer)
            valid == buffer[5] \in {31, 63, 95, 127}
        IN  /\ sent = <<190>>
            /\ writes = 8
            /\ reads = 72
            /\ Len(buffer) = 9
            /\ (plugged /\ bus # {}) => buffer = pad
            /\ out.tag = "Ok" <=> (remainder = 0 /\ valid)
            /\ remainder # 0 => out = Err(MismatchedCrc(remainder))
            /\ (remainder = 0 /\ ~valid) =>
                   out = Err([kind |-> "UnexpectedConfigurationRegister",
                              configuration_register |-> buffer[5]])
            /\ out.tag = "Ok" =>
                   /\ (out.val.triggers.high + 256) % 256 = buffer[3]
                   /\ (out.val.triggers.low + 256) % 256 = buffer[4]
                   /\ out.val.crc = buffer[9]

C18_Witness ==
    /\ cmd \in ReadImpls
    /\ pc = "done"
    /\ plugged
    /\ buffer = pad
    /\ buffer[5] = 159
    /\ out.tag = "Err"
    /\ out.err.kind = "MismatchedCrc"

\* C19: ReadRom writes 0x33, reads exactly 8 bytes and returns Ok(rom) only
\* if their CRC8 is zero; with exactly one device on the bus the result is
\* that device's address; with several the bytes read are the bitwise AND
\* of their addresses and the result is the checksum-mismatch error unless
\* the AND has CRC8 zero.
C19_ReadRomReadsTheWiredAnd ==
    (cmd = "ReadRom::execute" /\ pc = "done") =>
        /\ sent = <<51>>
        /\ writes = 8
        /\ reads = 64
        /\ Len(buffer) = 8
        /\ out.tag = "Ok" => Calculate(buffer) = 0
        /\ (plugged /\ Cardinality(bus) = 1) =>
               /\ out.tag = "Ok"
               /\ bus = {FromLeBytes(<<out.val.family_code>>
                             \o out.val.serial_number \o <<out.val.crc>>)}
        /\ (plugged /\ Cardinality(bus) >= 2) =>
               /\ FromLeBytes(buffer) =
                      {i \in 0..63 : \A d \in bus : i \in d}
               /\ Calculate(buffer) # 0 =>
                      out = Err(MismatchedCrc(Calculate(buffer)))
               /\ Calculate(buffer) = 0 => out.tag = "Ok"

C19_Witness ==
    /\ cmd = "ReadRom::execute"
    /\ pc = "done"
    /\ plugged
    /\ Cardinality(bus) = 1
    /\ out.tag = "Ok"
    /\ out.val.serial_number[1] = 4

\* C20: MatchRom writes 0x55, then the 8 address bytes in the order family
\* code, serial_number[0..6], crc: 72 write slots, the 64 address bits in
\* the order bit 0 to bit 63 of the address's u64 value; no read slot.
C20_MatchRomWritesTheAddress ==
    (cmd = "MatchRom::execute" /\ pc = "done") =>
        /\ sent = <<85, arg.family_code>> \o arg.serial_number \o <<arg.crc>>
        /\ writes = 72
        /\ Len(wire) = 72
        /\ SubSeq(wire, 1, 8) = <<TRUE, FALSE, TRUE, FALSE, TRUE, FALSE, TRUE, FALSE>>
        /\ \A i \in 0..63 : wire[9 + i] <=> (i \in RomIntoU64(arg))
        /\ reads = 0
        /\ out = Ok(<<>>)

C20_Witness ==
    /\ cmd = "MatchRom::execute"
    /\ pc = "done"
    /\ arg.serial_number[1] = 2
    /\ Len(wire) = 72
    /\ wire[9 + 9]

----------------------------------------------------------------------------
(* More claims about SearchRom, checked under Spec.                        *)

\* C27 (as claimed): in a SearchRom pass, at every bit position that did not
\* fail, the bit written back to the bus is the bit accumulated into the
\* result: bit k of the assembled address is 1 exactly when write_bit(true)
\* was issued for position k, whatever the two reads were.
C27_WrittenBitIsAccumulatedBit ==
    (cmd \in {"execute", "search"} /\ Len(wire) >= BITS8 + index)
        => \A k \in 0..(index - 1) : (k \in rom) = wire[BITS8 + k + 1]

\* C28: in SearchRom::execute, at a position whose two reads are (0,0) the
\* bit chosen (written and accumulated) is the bit of the conflict mask at
\* that position; at a position with reads (0,1) or (1,0) what is written
\* and accumulated depends on the reads alone; and no step of execute
\* changes the conflict mask.
C28_ExecuteReadsTheMaskOnlyAtConflicts ==
    [][cmd' = "execute" =>
          /\ conflicts' = conflicts
          /\ (pc = "rounds" /\ index' = index + 1) =>
                 LET written == wire'[Len(wire')]
                     accumulated == index \in rom'
                 IN  /\ pair' = CONFLICT =>
                            /\ written = (index \in conflicts)
                            /\ accumulated = (index \in conflicts)
                     /\ pair' # CONFLICT =>
                            /\ written = (pair' = ONE)
                            /\ accumulated = (pair' = ZERO)]_vars

C28_Witness ==
    /\ cmd = "execute"
    /\ index = BITS64
    /\ \E k \in conflicts :
           /\ samples[2 * k + 1] = FALSE
           /\ samples[2 * k + 2] = FALSE
           /\ wire[BITS8 + k + 1]
           /\ k \in rom
    /\ \E k \in 0..(BITS64 - 1) :
           /\ k \notin conflicts
           /\ samples[2 * k + 1] = FALSE
           /\ samples[2 * k + 2] = FALSE
           /\ ~wire[BITS8 + k + 1]
           /\ k \notin rom

----------------------------------------------------------------------------
(* The Driver at pin level: every operation as the pin operations and      *)
(* delays it performs, one step at a time, against the simulated line.  A   *)
(* pin operation can fail where the pin's error type is generic.           *)

\* lib.rs, mod standard: the intervals A..J handed to wait(us)
LibStandard ==
    [a |-> Wait(6), b |-> Wait(64), c |-> Wait(60), d |-> Wait(10), e |-> Wait(9),
     f |-> Wait(55), g |-> Wait(0), h |-> Wait(480), i |-> Wait(70), j |-> Wait(410)]

COMMAND_MEMORY_CONVERT == 68

\* mutant: one turn less
WAIT_FOR_HIGH_RETRIES_SHORT == 125 - 1

\* for _ in 0..125 of wait_for_high
WAIT_FOR_HIGH_RETRIES == 125

\* the errors the pin can return
PinErrors == {"E1", "E2"}

\* Error::Pin(e)
Pin(e) == [kind |-> "Pin", err |-> e]

\* mutant: the error of wait_for_high is the timeout
BusNotHighAsTimeout == [kind |-> "Timeout"]

\* Ds18b20Error::BusNotHigh
BusNotHigh == [kind |-> "BusNotHigh"]

\* a pin operation (set_low, set_high, is_high, is_low) or, for the commands
\* of commands.rs, a call of the OneWire driver, with its argument
PinOp(name) == [op |-> name, n |-> 0]
Call(name, n) == [op |-> name, n |-> n]

\* a delay, in nanoseconds
DelayStep(ns) == [op |-> "wait", n |-> ns]

\* mutant: the line is sampled after the last delay
InitializationOpsSampleLast(p) ==
    <<PinOp("set_low"), DelayStep(p.h), PinOp("set_high"), DelayStep(p.i),
      DelayStep(p.j), PinOp("is_low")>>

\* initialization: set_low, wait(H), set_high, wait(I), is_low, wait(J)
InitializationOps(p) ==
    <<PinOp("set_low"), DelayStep(p.h), PinOp("set_high"), DelayStep(p.i),
      PinOp("is_low"), DelayStep(p.j)>>

\* mutant: the line is sampled while the master still drives it low
ReadBitOpsSampleWhileLow(p) ==
    <<PinOp("set_low"), DelayStep(p.a), PinOp("is_high"), DelayStep(p.e),
      PinOp("set_high"), DelayStep(p.f)>>

\* read_bit: set_low, wait(A), set_high, wait(E), is_high, wait(F)
ReadBitOps(p) ==
    <<PinOp("set_low"), DelayStep(p.a), PinOp("set_high"), DelayStep(p.e),
      PinOp("is_high"), DelayStep(p.f)>>

\* mutant: the low times of the two write slots are exchanged
WriteBitOpsLowSwapped(p, bit) ==
    <<PinOp("set_low"), DelayStep(IF bit THEN p.c ELSE p.a),
      PinOp("set_high"), DelayStep(IF bit THEN p.b ELSE p.d)>>

\* write_bit(bit): set_low, wait(A or C), set_high, wait(B or D)
WriteBitOps(p, bit) ==
    <<PinOp("set_low"), DelayStep(IF bit THEN p.a ELSE p.c),
      PinOp("set_high"), DelayStep(IF bit THEN p.b ELSE p.d)>>

\* write_bit for each bit of a sequence, in order
RECURSIVE WriteBitsOps(_, _)
WriteBitsOps(p, bits) ==
    IF bits = <<>> THEN <<>>
    ELSE WriteBitOps(p, Head(bits)) \o WriteBitsOps(p, Tail(bits))

\* write_byte(byte) and write_bytes(bytes)
WriteByteOps(p, byte) == WriteBitsOps(p, WriteByteBits(byte))
WriteBytesOps(p, bs) == WriteBitsOps(p, WriteBytesBits(bs))

\* read_bit, count times
RECURSIVE ReadBitsOps(_, _)
ReadBitsOps(p, count) ==
    IF count = 0 THEN <<>>
    ELSE ReadBitOps(p) \o ReadBitsOps(p, count - 1)

\* read_byte: for _ in 0..u8::BITS, read_bit
ReadByteOps(p) == ReadBitsOps(p, BITS8)

\* read_bytes on a buffer of len bytes
RECURSIVE ReadBytesOps(_, _)
ReadBytesOps(p, len) ==
    IF len = 0 THEN <<>>
    ELSE ReadByteOps(p) \o ReadBytesOps(p, len - 1)

\* the functions of the revision of commands/mod.rs and commands/memory.rs,
\* which take their intervals from self.configuration
ConfiguredImpls ==
    {"initialization (commands/mod.rs)", "convert_temperature", "recall_eeprom",
     "copy_scratchpad", "read_scratchpad", "write_scratchpad"}

\* the operations of lib.rs
Primitives ==
    {"read_bit", "write_bit", "read_byte", "write_byte", "read_bytes",
     "write_bytes", "initialization"}

\* the commands of commands.rs, which call the OneWire driver
Transactions ==
    {"Convert::execute", "Recall::execute", "Copy::execute", "Read::execute",
     "Write::execute"}

\* the commands of command/memory.rs and commands/rom.rs, whose pin is
\* ErrorType<Error = Infallible>
InfallibleImpls ==
    {"SkipRom::execute", "ReadRom::execute", "MatchRom::execute",
     "SearchRom::execute", "ConvertTemperature::execute", "RecallE2::execute",
     "CopyScratchpad::execute", "ReadScratchpad::execute",
     "WriteScratchpad::execute"}

\* whether a step of f can return an error
Fallible(f) == faulty /\ f \notin InfallibleImpls

\* the intervals f waits for
ProfileOf(f) == IF f \in ConfiguredImpls THEN configuration ELSE LibStandard

\* mutant: the error of the pin is replaced by a timeout
QuestionMarkAsTimeout(e) == Err(Timeout)

\* the ? operator on a failed pin operation: the function returns the error
QuestionMark(e) == Err(Pin(e))

\* something holds the line low for ever
StuckLow == 1000

\* the level of the line (TRUE = high) in the read slot that follows reads
\* earlier ones: what the devices addressed by the running command send;
\* after a write operation of lib.rs the bits it wrote are played back, and
\* a line nobody pulls is high
ReadLevel ==
    IF cmd \in RecallImpls \cup {"Recall::execute"} THEN RecallAnswer(reads + 1)
    ELSE IF cmd \in ReadImpls THEN PadBit(reads)
    ELSE IF cmd = "ReadRom::execute" THEN LineBit(reads)
    ELSE IF cmd = "SearchRom::execute"
    THEN IF reads % 2 = 0 THEN LineBit(index) ELSE LineComplement(index)
    ELSE IF reads < Len(wire) THEN wire[reads + 1] ELSE TRUE

\* what a sampling step returns: is_low at the presence sample of a reset,
\* is_high in wait_for_high and in a read slot, read_bit of the OneWire driver
Sample(s) ==
    IF s.op \in {"is_low", "reset"} THEN held = StuckLow \/ PresencePulse
    ELSE IF pc = "wait_for_high" THEN Len(samples) >= held
    ELSE held # StuckLow /\ ReadLevel

Sampling == {"is_low", "is_high", "read_bit", "reset"}

\* the bytes read_bytes of the OneWire driver returns to Read::execute: the
\* scratchpad of the matched device, 0xFF from a line nobody pulls
Received ==
    IF held = StuckLow THEN [k \in 1..9 |-> 0]
    ELSE IF plugged /\ Device(arg.code.val) \in bus THEN pad
    ELSE [k \in 1..9 |-> 255]

\* the bits of the write slots of a trace made of write slots only
WrittenBits(p, ops) == [k \in 1..(Len(ops) \div 4) |-> ops[4 * k - 2].n = p.a]

\* the bytes assembled by read_byte from the levels sampled
BytesOf(levels) ==
    [k \in 1..(Len(levels) \div BITS8) |->
        ReadByteValue(SubSeq(levels, BITS8 * k - 7, BITS8 * k))]

\* the calls made on a line: a device that is busy is there for Recall E2, a
\* line that is held low for a while for wait_for_high, and the overdrive
\* intervals for the functions that take their intervals from the
\* configuration
Suits(f) ==
    IF busy > 0 THEN f \in RecallImpls \cup {"Recall::execute"}
    ELSE IF held \in 1..(StuckLow - 1) THEN f = "initialization (commands/mod.rs)"
    ELSE IF configuration = Overdrive THEN f \in ConfiguredImpls
    ELSE TRUE

\* the start of a call: nothing done yet, ops to do.  A read operation of
\* lib.rs may follow a write operation of lib.rs, every other call is
\* followed from a fresh Driver, before or after Driver::new
PinsBegin(f, ops, phase) ==
    /\ \/ pc = "idle"
       \/ pc = "done" /\ cmd = "new" /\ out.tag = "Ok"
       \/ /\ pc = "done"
          /\ <<cmd, f>> \in {<<"write_bit", "read_bit">>, <<"write_byte", "read_byte">>,
                             <<"write_bytes", "read_bytes">>}
          /\ out.tag = "Ok"
    /\ Suits(f)
    /\ cmd' = f
    /\ pc' = phase
    /\ todo' = ops
    /\ trace' = <<>>
    /\ failed' = NoFault
    /\ out' = NoResult
    /\ index' = 0
    /\ reads' = 0
    /\ samples' = <<>>
    /\ buffer' = <<>>
    /\ rom' = {}
    /\ active' = bus
    /\ UNCHANGED <<bus, plugged, writes, sent, line, pair, conflicts, passes,
                   picked, devVars, codecVars, padVars, configuration,
                   durations, waits, wire, pad, busy, held, faulty>>

\* the scratchpad handed to Write Scratchpad
TransactionScratchpads ==
    {[triggers |-> [high |-> 125, low |-> -10],
      configuration_register |-> [resolution |-> "Eleven"]]}

\* the bytes handed to write_byte and write_bytes
PlainBench ==
    /\ bus = {Device(1)}
    /\ held = 0
    /\ busy = 0
    /\ ~faulty

ByteArgs == IF PlainBench THEN 0..255 ELSE {165}

\* Driver::new: the pin should be high during idle
NewCall ==
    /\ PinsBegin("new", <<PinOp("set_high")>>, "body")
    /\ arg' = NoResult

\* read_bit, write_bit(bit) and initialization of lib.rs; arg keeps what was
\* written before a read
BitCall ==
    \/ PinsBegin("read_bit", ReadBitOps(LibStandard), "body") /\ UNCHANGED arg
    \/ \E bit \in BOOLEAN :
           /\ PinsBegin("write_bit", WriteBitOps(LibStandard, bit), "body")
           /\ arg' = [bit |-> bit]
    \/ /\ PinsBegin("initialization", InitializationOps(LibStandard), "body")
       /\ arg' = NoResult

\* read_byte, write_byte(byte), read_bytes and write_bytes of lib.rs
ByteCall ==
    \/ PinsBegin("read_byte", ReadByteOps(LibStandard), "body") /\ UNCHANGED arg
    \/ \E byte \in ByteArgs :
           /\ PinsBegin("write_byte", WriteByteOps(LibStandard, byte), "body")
           /\ arg' = [byte |-> byte]
    \/ \E len \in 0..2 :
           /\ PinsBegin("read_bytes", ReadBytesOps(LibStandard, len), "body")
           /\ UNCHANGED arg
    \/ \E bs \in {<<>>, <<165>>, <<1, 128>>, <<40, 255>>} :
           /\ PinsBegin("write_bytes", WriteBytesOps(LibStandard, bs), "body")
           /\ arg' = [bytes |-> bs]

\* initialization of commands/mod.rs: wait_for_high comes first
ModInitializationCall ==
    /\ PinsBegin("initialization (commands/mod.rs)", <<PinOp("is_high")>>,
                 "wait_for_high")
    /\ arg' = NoResult

\* SkipRom, ReadRom and MatchRom of commands/rom.rs
RomCommandCall ==
    \/ /\ PinsBegin("SkipRom::execute", WriteByteOps(LibStandard, COMMAND_ROM_SKIP),
                    "body")
       /\ arg' = NoResult
    \/ /\ PinsBegin("ReadRom::execute",
                    WriteByteOps(LibStandard, COMMAND_ROM_READ)
                        \o ReadBytesOps(LibStandard, 8), "body")
       /\ arg' = NoResult
    \/ \E d \in {Device(1), Device(2)} :
           /\ PinsBegin("MatchRom::execute",
                        WriteByteOps(LibStandard, COMMAND_ROM_MATCH)
                            \o WriteBytesOps(LibStandard,
                                             RomIntoBytes(RomTryFromU64(d).val)),
                        "body")
           /\ arg' = RomTryFromU64(d).val

\* the memory commands without a loop, of command/memory.rs and of
\* commands/memory.rs: Convert T, Copy Scratchpad, Read Scratchpad and
\* Write Scratchpad
MemoryCommandCall ==
    \/ \E f \in {"ConvertTemperature::execute", "convert_temperature"} :
           /\ PinsBegin(f, WriteByteOps(ProfileOf(f), COMMAND_MEMORY_CONVERT), "body")
           /\ arg' = NoResult
    \/ \E f \in CopyImpls :
           /\ PinsBegin(f, WriteByteOps(ProfileOf(f), COMMAND_MEMORY_SCRATCHPAD_COPY)
                               \o <<DelayStep(CopyWaitOf(f))>>, "body")
           /\ arg' = NoResult
    \/ \E f \in ReadImpls :
           /\ PinsBegin(f, WriteByteOps(ProfileOf(f), COMMAND_MEMORY_SCRATCHPAD_READ)
                               \o ReadBytesOps(ProfileOf(f), 9), "body")
           /\ arg' = NoResult
    \/ \E f \in {"WriteScratchpad::execute", "write_scratchpad"} :
       \E a \in TransactionScratchpads :
           /\ PinsBegin(f, WriteBytesOps(ProfileOf(f),
                               <<COMMAND_MEMORY_SCRATCHPAD_WRITE>>
                                   \o WriteScratchpadBytes(f, a)), "body")
           /\ arg' = a

\* Recall E2: the command byte, then the poll loop
RecallCall ==
    \E f \in RecallImpls :
        /\ PinsBegin(f, WriteByteOps(ProfileOf(f), COMMAND_MEMORY_RECALL), "poll")
        /\ arg' = NoResult

\* SearchRom::execute: initialization comes first
SearchRomCall ==
    /\ PinsBegin("SearchRom::execute", InitializationOps(LibStandard), "presence")
    /\ arg' = NoResult

\* the codes handed to the commands of commands.rs
TransactionCodes == {None, Some(1), Some(2)}

\* mutant: the command byte comes before the addressing step
TransactionHeadCommandFirst(code, byte) ==
    <<Call("reset", 0),
      Call("write_byte", byte),
      IF code.some THEN Call("run_match", code.val) ELSE Call("run_skip", 0)>>

\* reset, then Match with the code or Skip, then the command byte
TransactionHead(code, byte) ==
    <<Call("reset", 0),
      IF code.some THEN Call("run_match", code.val) ELSE Call("run_skip", 0),
      Call("write_byte", byte)>>

\* the commands of commands.rs: Convert, Recall, Copy, Read, Write
TransactionCall ==
    \/ \E code \in TransactionCodes :
           /\ PinsBegin("Convert::execute",
                        TransactionHead(code, COMMAND_MEMORY_CONVERT), "body")
           /\ arg' = [code |-> code]
    \/ \E code \in TransactionCodes :
           /\ PinsBegin("Recall::execute",
                        TransactionHead(code, COMMAND_MEMORY_RECALL), "poll")
           /\ arg' = [code |-> code]
    \/ \E code \in TransactionCodes :
           /\ PinsBegin("Copy::execute",
                        TransactionHead(code, COMMAND_MEMORY_SCRATCHPAD_COPY)
                            \o <<DelayStep(Wait(10000))>>, "body")
           /\ arg' = [code |-> code]
    \/ \E code \in TransactionCodes \ {None} :
           /\ PinsBegin("Read::execute",
                        TransactionHead(code, COMMAND_MEMORY_SCRATCHPAD_READ)
                            \o <<Call("read_bytes", 9)>>, "body")
           /\ arg' = [code |-> code]
    \/ \E code \in TransactionCodes :
       \E a \in TransactionScratchpads :
           /\ PinsBegin("Write::execute",
                        TransactionHead(code, COMMAND_MEMORY_SCRATCHPAD_WRITE)
                            \o [k \in 1..3 |->
                                   Call("write_byte",
                                        WriteScratchpadBytes("Write::execute", a)[k])],
                        "body")
           /\ arg' = [code |-> code, scratchpad |-> a]

\* the next step of the running call succeeds
PinStep ==
    /\ pc \notin {"idle", "done"}
    /\ todo # <<>>
    /\ LET s == Head(todo)
           level == Sample(s)
       IN  /\ trace' = Append(trace, IF s.op \in Sampling
                                     THEN [s EXCEPT !.n = IF level THEN 1 ELSE 0]
                                     ELSE s)
           /\ samples' = IF s.op \in Sampling \ {"reset"}
                         THEN Append(samples, level) ELSE samples
           /\ reads' = IF s.op = "read_bit" \/ (s.op = "is_high" /\ pc # "wait_for_high")
                       THEN reads + 1 ELSE reads
           /\ buffer' = IF s.op = "read_bytes" THEN Received ELSE buffer
    /\ todo' = Tail(todo)
    /\ UNCHANGED <<bus, plugged, active, cmd, pc, index, out, writes, sent, line,
                   pair, romVars, devVars, codecVars, padVars, configuration,
                   durations, waits, wire, pad, busy, arg, failed, held, faulty>>

\* the next step of the running call is a pin operation, or a call of the
\* OneWire driver, that fails: the ? after it returns the error
PinFault ==
    /\ pc \notin {"idle", "done"}
    /\ todo # <<>>
    /\ Head(todo).op # "wait"
    /\ Fallible(cmd)
    /\ \E e \in PinErrors :
           /\ failed' = [none |-> FALSE, err |-> e, at |-> Len(trace),
                         op |-> Head(todo).op]
           /\ out' = QuestionMark(e)
    /\ pc' = "done"
    /\ todo' = <<>>
    /\ UNCHANGED <<bus, plugged, active, cmd, index, reads, writes, sent, line,
                   pair, romVars, devVars, codecVars, padVars, memVars, trace,
                   held, faulty>>

\* mutant: a command of commands.rs reports a reset without presence as an
\* error
ResultOfAbsenceIsError(f) ==
    IF f \in Transactions /\ trace[1].n = 0 THEN Err(NoAttachedDevices)
    ELSE IF f \in {"read_bit", "initialization", "initialization (commands/mod.rs)"}
    THEN Ok(samples[Len(samples)])
    ELSE IF f = "read_byte" THEN Ok(BytesOf(samples)[1])
    ELSE IF f = "read_bytes" THEN Ok(BytesOf(samples))
    ELSE IF f = "ReadRom::execute" THEN RomTryFromBytes(BytesOf(samples))
    ELSE IF f \in ReadImpls THEN ScratchpadTryFrom(BytesOf(samples))
    ELSE IF f = "Read::execute" THEN ScratchpadTryFrom(buffer)
    ELSE Ok(<<>>)

\* what a call without a loop returns once all its steps are made
ResultOf(f) ==
    IF f \in {"read_bit", "initialization", "initialization (commands/mod.rs)"}
    THEN Ok(samples[Len(samples)])
    ELSE IF f = "read_byte" THEN Ok(BytesOf(samples)[1])
    ELSE IF f = "read_bytes" THEN Ok(BytesOf(samples))
    ELSE IF f = "ReadRom::execute" THEN RomTryFromBytes(BytesOf(samples))
    ELSE IF f \in ReadImpls THEN ScratchpadTryFrom(BytesOf(samples))
    ELSE IF f = "Read::execute" THEN ScratchpadTryFrom(buffer)
    ELSE Ok(<<>>)

\* a call without a loop returns
PinsReturn ==
    /\ pc = "body"
    /\ todo = <<>>
    /\ out' = ResultOf(cmd)
    /\ pc' = "done"
    /\ wire' = IF cmd \in {"write_bit", "write_byte", "write_bytes"}
               THEN WrittenBits(LibStandard, trace) ELSE wire
    /\ buffer' = IF cmd \in {"read_bytes", "ReadRom::execute"} \cup ReadImpls
                 THEN BytesOf(samples) ELSE buffer
    /\ UNCHANGED <<bus, plugged, active, cmd, index, reads, writes, sent, line,
                   pair, romVars, devVars, codecVars, padVars, configuration,
                   durations, waits, pad, busy, arg, samples, pinVars>>

\* wait_for_high: for _ in 0..125 { if self.is_high()? { return Ok(()) }
\* self.delay.delay_us(2) } Err(BusNotHigh), and what initialization does
\* when it returns Ok
WaitForHighNext ==
    /\ pc = "wait_for_high"
    /\ todo = <<>>
    /\ LET last == trace[Len(trace)]
       IN  IF last.op = "is_high"
           THEN IF last.n = 1
                THEN /\ todo' = InitializationOps(configuration)
                     /\ pc' = "body"
                     /\ UNCHANGED <<index, out>>
                ELSE /\ todo' = <<DelayStep(Wait(2))>>
                     /\ index' = index + 1
                     /\ UNCHANGED <<pc, out>>
           ELSE IF index < WAIT_FOR_HIGH_RETRIES
                THEN /\ todo' = <<PinOp("is_high")>>
                     /\ UNCHANGED <<pc, index, out>>
                ELSE /\ out' = Err(BusNotHigh)
                     /\ pc' = "done"
                     /\ UNCHANGED <<todo, index>>
    /\ UNCHANGED <<bus, plugged, active, cmd, reads, writes, sent, line, pair,
                   romVars, devVars, codecVars, padVars, memVars, trace, failed,
                   held, faulty>>

\* the poll loop of Recall E2: for _ in 0..max_retries { if read_bit()? ==
\* true { return Ok(()) } } Err(Timeout)
RecallNext ==
    /\ pc = "poll"
    /\ todo = <<>>
    /\ IF samples # <<>> /\ samples[Len(samples)]
       THEN /\ out' = Ok(<<>>)
            /\ pc' = "done"
            /\ UNCHANGED <<todo, index>>
       ELSE IF index < MaxRetries
            THEN /\ todo' = IF cmd = "Recall::execute"
                            THEN <<Call("read_bit", 0)>>
                            ELSE ReadBitOps(ProfileOf(cmd))
                 /\ index' = index + 1
                 /\ UNCHANGED <<out, pc>>
            ELSE /\ out' = Err(Timeout)
                 /\ pc' = "done"
                 /\ UNCHANGED <<todo, index>>
    /\ UNCHANGED <<bus, plugged, active, cmd, reads, writes, sent, line, pair,
                   romVars, devVars, codecVars, padVars, memVars, trace, failed,
                   held, faulty>>

\* SearchRom::execute between its calls: after initialization, before a
\* round, and between the two reads and the write of a round
SearchRomNext ==
    /\ cmd = "SearchRom::execute"
    /\ pc \in {"presence", "rounds", "arm"}
    /\ todo = <<>>
    /\ IF pc = "presence"
       THEN IF samples[1]
            THEN /\ todo' = WriteByteOps(LibStandard, COMMAND_ROM_SEARCH)
                 /\ pc' = "rounds"
                 /\ UNCHANGED <<out, rom, active, index>>
            ELSE /\ out' = Err(NoAttachedDevices)
                 /\ pc' = "done"
                 /\ UNCHANGED <<todo, rom, active, index>>
       ELSE IF pc = "rounds"
       THEN IF index < BITS64
            THEN /\ todo' = ReadBitOps(LibStandard) \o ReadBitOps(LibStandard)
                 /\ pc' = "arm"
                 /\ UNCHANGED <<out, rom, active, index>>
            ELSE /\ out' = RomTryFromU64(rom)
                 /\ pc' = "done"
                 /\ UNCHANGED <<todo, rom, active, index>>
       ELSE LET p == Pattern(<<samples[Len(samples) - 1], samples[Len(samples)]>>)
                arm == ExecuteArm(p, rom, conflicts, index)
            IN  IF p = "NONE"
                THEN /\ out' = Err(NoAttachedDevices)
                     /\ pc' = "done"
                     /\ UNCHANGED <<todo, rom, active, index>>
                ELSE /\ rom' = arm.rom
                     /\ todo' = WriteBitOps(LibStandard, arm.bit)
                     /\ active' = Selected(index, arm.bit)
                     /\ index' = index + 1
                     /\ pc' = "rounds"
                     /\ UNCHANGED out
    /\ UNCHANGED <<bus, plugged, cmd, reads, writes, sent, line, pair, conflicts,
                   passes, picked, devVars, codecVars, padVars, memVars, trace,
                   failed, held, faulty>>

\* the bus cable is pulled between two rounds of a search
Unplug ==
    /\ cmd = "SearchRom::execute"
    /\ pc = "rounds"
    /\ todo = <<>>
    /\ index = 3
    /\ plugged
    /\ plugged' = FALSE
    /\ UNCHANGED <<bus, active, cmd, pc, index, out, reads, writes, sent, line,
                   pair, romVars, devVars, codecVars, padVars, memVars, pinVars>>

\* the lines and devices the calls are made against
PinBenches ==
    {[bus |-> {Device(1)}, pad |-> DefaultPad, busy |-> 0, profile |-> Standard,
      held |-> 0, faulty |-> FALSE]}
        \cup {[bus |-> b, pad |-> DefaultPad, busy |-> 0, profile |-> Standard,
               held |-> 0, faulty |-> TRUE] : b \in {{}, {Device(1), Device(2)}}}
        \cup {[bus |-> {Device(1)}, pad |-> DefaultPad, busy |-> n,
               profile |-> Standard, held |-> 0, faulty |-> TRUE] :
                   n \in {1, 142, 143}}
        \cup {[bus |-> {Device(1)}, pad |-> DefaultPad, busy |-> 0,
               profile |-> Standard, held |-> n, faulty |-> TRUE] :
                   n \in {1, 124, 125, StuckLow}}
        \cup {[bus |-> {Device(1)}, pad |-> Corrupted(DefaultPad), busy |-> 0,
               profile |-> Overdrive, held |-> 0, faulty |-> TRUE]}

InitPinBench ==
    /\ \E bench \in PinBenches :
           /\ configuration = bench.profile
           /\ bus = bench.bus
           /\ pad = bench.pad
           /\ busy = bench.busy
           /\ held = bench.held
           /\ faulty = bench.faulty
    /\ durations = {}
    /\ waits = <<>>
    /\ wire = <<>>
    /\ arg = NoResult
    /\ buffer = <<>>
    /\ samples = <<>>
    /\ trace = <<>>
    /\ todo = <<>>
    /\ failed = NoFault

InitPinsRun ==
    InitBus /\ InitRom /\ InitDev /\ InitCodec /\ InitPad /\ InitPinBench

NextPins ==
    \/ NewCall
    \/ BitCall
    \/ ByteCall
    \/ ModInitializationCall
    \/ RomCommandCall
    \/ MemoryCommandCall
    \/ RecallCall
    \/ SearchRomCall
    \/ TransactionCall
    \/ PinStep
    \/ PinFault
    \/ PinsReturn
    \/ WaitForHighNext
    \/ RecallNext
    \/ SearchRomNext
    \/ Unplug

SpecPins == InitPinsRun /\ [][NextPins]_vars

\* the initialization of commands/mod.rs alone
NextModInitialization ==
    \/ ModInitializationCall
    \/ PinStep
    \/ PinFault
    \/ PinsReturn
    \/ WaitForHighNext

\* the call, once started, is not suspended for ever: the Driver runs it on
\* one thread with blocking delays
SpecPinsFair ==
    InitPinsRun /\ [][NextModInitialization]_vars /\ WF_vars(NextModInitialization)

(***************************************************************************)
(* Claims about the Driver at pin level, checked under SpecPins            *)
(***************************************************************************)

\* C24: the initialization of lib.rs is set_low, a delay of H = 480 us,
\* set_high, a delay of I = 70 us, one sample of the line and a delay of
\* J = 410 us, in this order and nothing else; it returns Ok(true) exactly
\* when the line was low at the sample, and Ok(false), not an error, when no
\* device answers
C24_InitializationSequence ==
    cmd = "initialization" =>
        LET low == held = StuckLow \/ (plugged /\ bus # {})
            expected ==
                <<[op |-> "set_low", n |-> 0], [op |-> "wait", n |-> 480000],
                  [op |-> "set_high", n |-> 0], [op |-> "wait", n |-> 70000],
                  [op |-> "is_low", n |-> IF low THEN 1 ELSE 0],
                  [op |-> "wait", n |-> 410000]>>
        IN  /\ Len(trace) <= 6
            /\ trace = SubSeq(expected, 1, Len(trace))
            /\ (pc = "done" /\ failed = NoFault) =>
                   (trace = expected /\ out = [tag |-> "Ok", val |-> low])
            /\ (pc # "done") => out = NoResult

\* an initialization that finds no device returns Ok(false) after its six steps
C24_Witness ==
    /\ cmd = "initialization"
    /\ pc = "done"
    /\ bus = {}
    /\ Len(trace) = 6
    /\ out = [tag |-> "Ok", val |-> FALSE]

\* C23: the first pin operation that fails ends the running call: the call
\* returns that same pin error, and no pin operation and no delay is made
\* after the failure; a pin error is never replaced by Ok or another error
C23_FirstPinErrorAborts ==
    /\ failed # NoFault =>
           /\ pc = "done"
           /\ todo = <<>>
           /\ out = [tag |-> "Err", err |-> [kind |-> "Pin", err |-> failed.err]]
           /\ Len(trace) = failed.at
    /\ (out # NoResult /\ out.tag = "Err" /\ out.err.kind = "Pin") =>
           failed # NoFault

\* read_scratchpad of commands/memory.rs fails at the sample of a read slot
\* in the middle of the scratchpad
C23_Witness ==
    /\ cmd = "read_scratchpad"
    /\ failed # NoFault
    /\ failed.op = "is_high"
    /\ failed.at > 100
    /\ failed.at = Len(trace)
    /\ out = [tag |-> "Err", err |-> [kind |-> "Pin", err |-> "E2"]]

\* C22: read_byte makes exactly 8 read slots and returns the byte whose bit k
\* is the k-th sample; write_byte(b) makes exactly 8 write slots, the k-th
\* carrying bit k of b; a byte written and read back over the line comes back
\* unchanged, for all 256 values; read_bytes and write_bytes treat their
\* bytes in index order
C22_BytesAreEightSlotsLsbFirst ==
    LET bitOf(b, k) == (b \div (2 ^ k)) % 2 = 1
        writeSlot(at, bit) ==
            /\ trace[at + 1] = [op |-> "set_low", n |-> 0]
            /\ trace[at + 2] = [op |-> "wait", n |-> IF bit THEN 6000 ELSE 60000]
            /\ trace[at + 3] = [op |-> "set_high", n |-> 0]
            /\ trace[at + 4] = [op |-> "wait", n |-> IF bit THEN 64000 ELSE 10000]
        readSlot(at) ==
            /\ trace[at + 1] = [op |-> "set_low", n |-> 0]
            /\ trace[at + 2] = [op |-> "wait", n |-> 6000]
            /\ trace[at + 3] = [op |-> "set_high", n |-> 0]
            /\ trace[at + 4] = [op |-> "wait", n |-> 9000]
            /\ trace[at + 5].op = "is_high"
            /\ trace[at + 6] = [op |-> "wait", n |-> 55000]
        sampled(at) ==
            trace[at + 5].n + 2 * trace[at + 11].n + 4 * trace[at + 17].n
                + 8 * trace[at + 23].n + 16 * trace[at + 29].n
                + 32 * trace[at + 35].n + 64 * trace[at + 41].n
                + 128 * trace[at + 47].n
        returned == pc = "done" /\ failed = NoFault
    IN  /\ (cmd = "write_byte" /\ returned) =>
               /\ Len(trace) = 4 * 8
               /\ \A k \in 0..7 : writeSlot(4 * k, bitOf(arg.byte, k))
        /\ (cmd = "read_byte" /\ returned) =>
               /\ Len(trace) = 6 * 8
               /\ \A k \in 0..7 : readSlot(6 * k)
               /\ out = [tag |-> "Ok", val |-> sampled(0)]
               /\ (wire # <<>> /\ held = 0) => out.val = arg.byte
        /\ (cmd = "write_bytes" /\ returned) =>
               /\ Len(trace) = 4 * 8 * Len(arg.bytes)
               /\ \A j \in 1..Len(arg.bytes) : \A k \in 0..7 :
                      writeSlot(32 * (j - 1) + 4 * k, bitOf(arg.bytes[j], k))
        /\ (cmd = "read_bytes" /\ returned) =>
               /\ out.tag = "Ok"
               /\ Len(trace) = 6 * 8 * Len(out.val)
               /\ \A j \in 1..Len(out.val) :
                      /\ \A k \in 0..7 : readSlot(48 * (j - 1) + 6 * k)
                      /\ out.val[j] = sampled(48 * (j - 1))
                      /\ (wire # <<>> /\ held = 0) =>
                             out.val[j] = IF j <= Len(arg.bytes)
                                          THEN arg.bytes[j] ELSE 255

\* the byte 0x5A written by write_byte comes back from read_byte
C22_Witness ==
    /\ cmd = "read_byte"
    /\ pc = "done"
    /\ arg = [byte |-> 90]
    /\ Len(wire) = 8
    /\ Len(trace) = 48
    /\ out = [tag |-> "Ok", val |-> 90]

\* C21: the first byte a command puts on the bus is its code: Read ROM 0x33,
\* Match ROM 0x55, Skip ROM 0xCC, Search ROM 0xF0, Convert T 0x44, Recall E2
\* 0xB8, Copy Scratchpad 0x48, Read Scratchpad 0xBE, Write Scratchpad 0x4E;
\* Skip ROM and Convert T are that byte alone: 8 write slots, no read slot
\* and no wait after them
C21_CommandCodesComeFirst ==
    LET code ==
            CASE cmd = "ReadRom::execute" -> 51
              [] cmd = "MatchRom::execute" -> 85
              [] cmd = "SkipRom::execute" -> 204
              [] cmd = "SearchRom::execute" -> 240
              [] cmd \in {"ConvertTemperature::execute", "convert_temperature",
                          "Convert::execute"} -> 68
              [] cmd \in {"RecallE2::execute", "recall_eeprom",
                          "Recall::execute"} -> 184
              [] cmd \in {"CopyScratchpad::execute", "copy_scratchpad",
                          "Copy::execute"} -> 72
              [] cmd \in {"ReadScratchpad::execute", "read_scratchpad",
                          "Read::execute"} -> 190
              [] cmd \in {"WriteScratchpad::execute", "write_scratchpad",
                          "Write::execute"} -> 78
              [] OTHER -> -1
        base == IF cmd = "SearchRom::execute" THEN 6 ELSE 0
        p == ProfileOf(cmd)
        bit(k) == (code \div (2 ^ k)) % 2 = 1
        expected(i) ==
            LET k == (i - 1) \div 4
            IN  CASE (i - 1) % 4 = 0 -> [op |-> "set_low", n |-> 0]
                  [] (i - 1) % 4 = 1 ->
                         [op |-> "wait", n |-> IF bit(k) THEN p.a ELSE p.c]
                  [] (i - 1) % 4 = 2 -> [op |-> "set_high", n |-> 0]
                  [] (i - 1) % 4 = 3 ->
                         [op |-> "wait", n |-> IF bit(k) THEN p.b ELSE p.d]
    IN  /\ (code >= 0 /\ cmd \notin Transactions) =>
               \A i \in 1..32 :
                   base + i <= Len(trace) => trace[base + i] = expected(i)
        /\ (cmd \in Transactions /\ Len(trace) >= 3) =>
               trace[3] = [op |-> "write_byte", n |-> code]
        /\ cmd \in {"SkipRom::execute", "ConvertTemperature::execute",
                    "convert_temperature"} =>
               /\ Len(trace) <= 32
               /\ (pc = "done" /\ failed = NoFault) =>
                      (Len(trace) = 32 /\ out = [tag |-> "Ok", val |-> <<>>])
               /\ pc # "done" => out = NoResult

\* Convert T has returned after its eight write slots
C21_Witness ==
    /\ cmd = "ConvertTemperature::execute"
    /\ pc = "done"
    /\ Len(trace) = 32
    /\ trace[2].n = 60000
    /\ trace[10].n = 6000
    /\ out = [tag |-> "Ok", val |-> <<>>]

\* C25 as stated: below the command layer nothing gives up after a bounded
\* number of polls; the only call that returns a timeout-style error is
\* Recall E2 with its poll loop, and an initialization on a line stuck low
\* does not return one
C25_OnlyRecallGivesUp ==
    (out # NoResult /\ out.tag = "Err" /\ out.err.kind \in {"Timeout", "BusNotHigh"})
        => cmd \in {"RecallE2::execute", "recall_eeprom", "Recall::execute"}

\* C25, amended: no operation of lib.rs gives up after a bounded number of
\* polls, and its initialization on a line stuck low returns Ok(true); the
\* calls that return an error after a bounded number of polls are Recall E2
\* (Timeout after 143 read slots) and the initialization of commands/mod.rs
\* (BusNotHigh after the 125 low samples of wait_for_high), which on a line
\* stuck low returns BusNotHigh
C25_BoundedPollsAreRecallAndWaitForHigh ==
    LET gaveUp == /\ out # NoResult
                  /\ out.tag = "Err"
                  /\ out.err.kind \in {"Timeout", "BusNotHigh"}
        settled == pc = "done" /\ failed = NoFault
    IN  /\ gaveUp =>
               \/ /\ cmd \in {"RecallE2::execute", "recall_eeprom", "Recall::execute"}
                  /\ out.err.kind = "Timeout"
                  /\ reads = 143
               \/ /\ cmd = "initialization (commands/mod.rs)"
                  /\ out.err.kind = "BusNotHigh"
                  /\ Len(samples) = 125
                  /\ \A k \in 1..125 : ~samples[k]
        /\ (cmd = "initialization" /\ settled /\ held = StuckLow) =>
               out = [tag |-> "Ok", val |-> TRUE]
        /\ (cmd = "initialization (commands/mod.rs)" /\ settled /\ held = StuckLow) =>
               out = [tag |-> "Err", err |-> [kind |-> "BusNotHigh"]]

\* the initialization of lib.rs on a line stuck low reports a presence
C25_Witness ==
    /\ cmd = "initialization"
    /\ held = StuckLow
    /\ pc = "done"
    /\ Len(trace) = 6
    /\ out = [tag |-> "Ok", val |-> TRUE]

\* C26: Convert, Recall, Copy, Read and Write of commands.rs are linear:
\* reset, then the addressing step (Match with the code when there is one,
\* Skip otherwise; Read always Match), then the command byte, then the
\* payload of fixed length if there is one, then the wait for completion if
\* there is one; an error at any step ends the transaction
C26_TransactionsAreLinear ==
    cmd \in Transactions =>
        LET code == CASE cmd = "Convert::execute" -> 68
                      [] cmd = "Recall::execute" -> 184
                      [] cmd = "Copy::execute" -> 72
                      [] cmd = "Read::execute" -> 190
                      [] cmd = "Write::execute" -> 78
            whole == CASE cmd = "Convert::execute" -> 3
                       [] cmd = "Recall::execute" -> 3 + 143
                       [] cmd = "Copy::execute" -> 4
                       [] cmd = "Read::execute" -> 4
                       [] cmd = "Write::execute" -> 6
            after(i) ==
                CASE cmd = "Convert::execute" -> FALSE
                  [] cmd = "Recall::execute" ->
                         /\ trace[i].op = "read_bit"
                         /\ i < Len(trace) => trace[i].n = 0
                  [] cmd = "Copy::execute" ->
                         trace[i] = [op |-> "wait", n |-> 10000000]
                  [] cmd = "Read::execute" ->
                         trace[i] = [op |-> "read_bytes", n |-> 9]
                  [] cmd = "Write::execute" -> trace[i].op = "write_byte"
        IN  /\ Len(trace) <= whole
            /\ Len(trace) >= 1 => trace[1].op = "reset"
            /\ Len(trace) >= 2 =>
                   /\ trace[2] = IF arg.code.some
                                 THEN [op |-> "run_match", n |-> arg.code.val]
                                 ELSE [op |-> "run_skip", n |-> 0]
                   /\ cmd = "Read::execute" => trace[2].op = "run_match"
            /\ Len(trace) >= 3 => trace[3] = [op |-> "write_byte", n |-> code]
            /\ \A i \in 4..Len(trace) : after(i)
            /\ failed # NoFault =>
                   /\ pc = "done"
                   /\ Len(trace) = failed.at
                   /\ out.tag = "Err"
            /\ (pc = "done" /\ failed = NoFault /\ cmd # "Recall::execute") =>
                   (Len(trace) = whole /\ out.tag \in {"Ok", "Err"})
            /\ pc # "done" => out = NoResult

\* Write with a code has made its six calls
C26_Witness ==
    /\ cmd = "Write::execute"
    /\ pc = "done"
    /\ failed = NoFault
    /\ arg.code = [some |-> TRUE, val |-> 2]
    /\ Len(trace) = 6
    /\ trace[2] = [op |-> "run_match", n |-> 2]
    /\ out.tag = "Ok"

\* C29: a pass of SearchRom::execute that sees a presence and never reads
\* (1,1) is, after initialization and the 8 write slots of 0xF0, exactly 64
\* rounds of two read slots followed by one write slot, for the bit
\* positions 0..63 in order; only then are the 8 little-endian bytes of the
\* accumulated value validated: Ok only if their CRC8 is zero, the
\* checksum-mismatch error otherwise
C29_SearchPassIsSixtyFourRounds ==
    cmd = "SearchRom::execute" =>
        LET reset == <<"set_low", "wait", "set_high", "wait", "is_low", "wait">>
            write == <<"set_low", "wait", "set_high", "wait">>
            round == <<"set_low", "wait", "set_high", "wait", "is_high", "wait",
                       "set_low", "wait", "set_high", "wait", "is_high", "wait",
                       "set_low", "wait", "set_high", "wait">>
            shape(i) == IF i <= 6 THEN reset[i]
                        ELSE IF i <= 38 THEN write[((i - 7) % 4) + 1]
                        ELSE round[((i - 39) % 16) + 1]
            first(r) == samples[2 * r + 2]
            second(r) == samples[2 * r + 3]
            turns == (Len(samples) - 1) \div 2
            silent == \E r \in 0..(turns - 1) : first(r) /\ second(r)
            remainder == Calculate(ToLeBytes(rom))
        IN  /\ Len(trace) <= 38 + 16 * 64
            /\ \A i \in 1..Len(trace) : trace[i].op = shape(i)
            /\ index <= 64
            /\ \A r \in 0..63 : r \in rom => r < index
            /\ \A r \in 0..(index - 1) :
                   (r \in rom) = IF ~first(r) /\ ~second(r) THEN r \in conflicts
                                 ELSE ~first(r)
            /\ pc # "done" => out = NoResult
            /\ (pc = "done" /\ samples[1] /\ ~silent) =>
                   /\ Len(trace) = 38 + 16 * 64
                   /\ index = 64
                   /\ IF remainder = 0
                      THEN out.tag = "Ok" /\ RomIntoU64(out.val) = rom
                      ELSE out = [tag |-> "Err",
                                  err |-> [kind |-> "MismatchedCrc", crc8 |-> remainder]]

\* a pass over one device has made its 64 rounds and ends with the
\* checksum-mismatch error
C29_Witness ==
    /\ cmd = "SearchRom::execute"
    /\ bus = {Device(1)}
    /\ pc = "done"
    /\ index = 64
    /\ Len(trace) = 38 + 16 * 64
    /\ out.tag = "Err"
    /\ out.err.kind = "MismatchedCrc"

C31_AbsenceIsOkNone ==
    [][(pc = "idle" /\ ~finished /\ plugged' = plugged) =>
          LET exhausted == state # [none |-> TRUE] /\ state.discrepancies = {}
              absent == ~(plugged /\ bus # {})
              nothing == /\ searches' = Append(searches, [tag |-> "Ok",
                                                          val |-> [some |-> FALSE]])
                         /\ items' = Append(items, [some |-> FALSE])
                         /\ finished'
                         /\ state' = [none |-> TRUE]
                         /\ pc' = "idle"
                         /\ writes' = 0
                         /\ reads' = 0
                         /\ sent' = <<>>
          IN  /\ exhausted => (nothing /\ line' = line /\ active' = active)
              /\ (~exhausted /\ absent) => (nothing /\ line' = "high")
              /\ (~exhausted /\ ~absent) =>
                     (searches' = searches /\ line' = "low" /\ sent' = <<240>>)]_vars

\* Devices::next on an empty bus: the pass returned Ok(None), the item is
\* None, and the next call returns None again
C31_Witness ==
    /\ bus = {}
    /\ searches = <<[tag |-> "Ok", val |-> [some |-> FALSE]]>>
    /\ items = <<[some |-> FALSE], [some |-> FALSE]>>
    /\ finished
    /\ writes = 0
    /\ sent = <<>>

(***************************************************************************)
(* More claims about the commands, checked under SpecCommands              *)
(***************************************************************************)

\* C32: whenever recall_eeprom returns Timeout, the read slots it issued
\* add up to at least 10 ms (10,000 us) of slot time under the timing
\* profile the driver is using, the standard one or the overdrive one
C32_TimeoutAfterTenMilliseconds ==
    (cmd = "recall_eeprom" /\ out = [tag |-> "Err", err |-> [kind |-> "Timeout"]]) =>
        reads * (configuration.a + configuration.e + configuration.f)
            >= 10000 * 1000

(***************************************************************************)
(* More claims about the Driver at pin level, checked under SpecPins       *)
(***************************************************************************)

\* C34: Driver::new releases the line (set_high); in every call of
\* initialization, read_bit, write_bit, read_byte, write_byte, read_bytes
\* and write_bytes the drive actions alternate set_low, set_high, starting
\* with set_low, so every set_low is followed by exactly one set_high, the
\* line is sampled only after a release, and a call that returns Ok leaves
\* set_high as the last drive action
C34_LineIsReleased ==
    LET drives == {i \in 1..Len(trace) : trace[i].op \in {"set_low", "set_high"}}
        before(i) == Cardinality({j \in drives : j < i})
        returned == pc = "done" /\ failed = [none |-> TRUE]
    IN  /\ (cmd = "new" /\ returned) => trace = <<[op |-> "set_high", n |-> 0]>>
        /\ cmd \in {"initialization", "read_bit", "write_bit", "read_byte",
                    "write_byte", "read_bytes", "write_bytes"} =>
               /\ \A i \in drives :
                      trace[i].op = IF before(i) % 2 = 0 THEN "set_low" ELSE "set_high"
               /\ \A i \in 1..Len(trace) :
                      trace[i].op \in {"is_high", "is_low"} =>
                          (before(i) > 0 /\ before(i) % 2 = 0)
               /\ returned =>
                      /\ Cardinality(drives) % 2 = 0
                      /\ \A i \in drives :
                             before(i) = Cardinality(drives) - 1 =>
                                 trace[i].op = "set_high"

\* write_bytes of two bytes has returned: 16 slots, the line released last
C34_Witness ==
    /\ cmd = "write_bytes"
    /\ pc = "done"
    /\ failed = [none |-> TRUE]
    /\ Len(trace) = 64
    /\ trace[61].op = "set_low"
    /\ trace[63].op = "set_high"

\* C33: in Convert, Recall, Copy, Read and Write of commands.rs the presence
\* the reset reports does not influence the transaction: after a reset that
\* succeeds without a presence pulse the command writes the addressing step
\* and the command byte as with a device present, and Convert, Copy and
\* Write return Ok; only an error returned by the reset stops the command
\* there
C33_PresenceIsNotLookedAt ==
    cmd \in {"Convert::execute", "Recall::execute", "Copy::execute",
             "Read::execute", "Write::execute"} =>
        LET code == CASE cmd = "Convert::execute" -> 68
                      [] cmd = "Recall::execute" -> 184
                      [] cmd = "Copy::execute" -> 72
                      [] cmd = "Read::execute" -> 190
                      [] cmd = "Write::execute" -> 78
            head == <<IF arg.code.some
                      THEN [op |-> "run_match", n |-> arg.code.val]
                      ELSE [op |-> "run_skip", n |-> 0],
                      [op |-> "write_byte", n |-> code]>>
            rest == CASE cmd = "Convert::execute" -> <<>>
                      [] cmd = "Copy::execute" -> <<[op |-> "wait", n |-> 10000000]>>
                      [] cmd = "Write::execute" ->
                             <<[op |-> "write_byte", n |-> 246],
                               [op |-> "write_byte", n |-> 125],
                               [op |-> "write_byte", n |-> 2]>>
                      [] OTHER -> <<>>
            settled == pc = "done" /\ failed = [none |-> TRUE]
        IN  /\ (pc = "done" /\ Len(trace) < 3) =>
                   (failed # [none |-> TRUE] /\ out.tag = "Err")
            /\ (pc = "done" /\ trace = <<>>) => failed.op = "reset"
            /\ Len(trace) >= 1 => trace[1].op = "reset" /\ trace[1].n \in {0, 1}
            /\ Len(trace) >= 3 => SubSeq(trace, 2, 3) = head
            /\ (settled /\ cmd \in {"Convert::execute", "Copy::execute",
                                     "Write::execute"}) =>
                   /\ out = [tag |-> "Ok", val |-> <<>>]
                   /\ SubSeq(trace, 2, Len(trace)) = head \o rest

\* Write on an empty bus: the reset reports no presence, the six calls are
\* made all the same and Write returns Ok
C33_Witness ==
    /\ cmd = "Write::execute"
    /\ bus = {}
    /\ pc = "done"
    /\ Len(trace) = 6
    /\ trace[1] = [op |-> "reset", n |-> 0]
    /\ trace[3] = [op |-> "write_byte", n |-> 78]
    /\ out = [tag |-> "Ok", val |-> <<>>]

(***************************************************************************)
(* A last claim about device_search, checked under SpecDevices             *)
(***************************************************************************)

\* C35: in every SearchState device_search returns in a chain of passes that
\* starts from None on a static bus, every bit set in discrepancies is 0 in
\* address, and, when discrepancies is not zero, last_discrepancy_index is
\* the index of its highest set bit; so a resumed pass flips to 1 a position
\* that is a recorded conflict not yet explored, and still finds the
\* conflict there
C35_SearchStateInvariant ==
    plugged =>
        \A k \in 1..Len(searches) :
            /\ searches[k] # [tag |-> "Err", err |-> [kind |-> "UnexpectedResponse"]]
            /\ (searches[k].tag = "Ok" /\ searches[k].val.some) =>
                   LET returned == searches[k].val.val[2]
                   IN  /\ \A i \in returned.discrepancies : i \notin returned.address
                       /\ returned.discrepancies # {} =>
                              /\ returned.last_discrepancy_index
                                     \in returned.discrepancies
                              /\ \A i \in returned.discrepancies :
                                     i <= returned.last_discrepancy_index
                       /\ returned.address = searches[k].val.val[1]

\* three devices: the first pass records two conflicts, the second pass
\* takes the other branch at the higher one and hands back the lower one
C35_Witness ==
    /\ plugged
    /\ Cardinality(bus) = 3
    /\ Len(searches) >= 2
    /\ Found(1)
    /\ Found(2)
    /\ Cardinality(FoundState(1).discrepancies) = 2
    /\ Cardinality(FoundState(2).discrepancies) = 1
    /\ FoundState(2).last_discrepancy_index \in FoundState(2).discrepancies
    /\ FoundState(2).last_discrepancy_index < FoundState(1).last_discrepancy_index
    /\ FoundState(1).last_discrepancy_index \in FoundState(2).address

(***************************************************************************)
(* A last claim about the checksum, checked under SpecCodec                *)
(***************************************************************************)

\* the shift register of the polynomial x^8 + x^5 + x^4 + 1, a set of bit
\* positions, after one more bit has entered: the feedback is bit 0 of the
\* register xor the entering bit; the register shifts right and bits 7, 3
\* and 2 (the mask 0x8C) are inverted when the feedback is 1
ShiftRegisterStep(reg, entering) ==
    LET shifted == {i - 1 : i \in reg \ {0}}
    IN  IF (0 \in reg) # entering
        THEN (shifted \ {7, 3, 2}) \cup ({7, 3, 2} \ shifted)
        ELSE shifted

\* the states of the shift register: before the first bit, then after each
\* of the bits entering
RECURSIVE ShiftRegisterTrail(_, _)
ShiftRegisterTrail(trail, bits) ==
    IF Len(trail) > Len(bits) THEN trail
    ELSE ShiftRegisterTrail(
             Append(trail, ShiftRegisterStep(trail[Len(trail)], bits[Len(trail)])),
             bits)

\* C36: calculate equals the Dallas/Maxim CRC-8 of its input, here computed
\* bit by bit by the shift register of the polynomial, from register 0, the
\* bits of each byte entering least significant first;
\* calculate of the empty sequence is 0,
\* calculate([97,1,75,70,127,255,15,16]) is 2 and
\* calculate([95,1,75,70,127,255,1,16]) is 155
C36_CalculateIsDallasCrc8 ==
    crc # 256 =>
        LET entering == [n \in 1..(8 * Len(data)) |->
                            (data[((n - 1) \div 8) + 1] \div (2 ^ ((n - 1) % 8))) % 2 = 1]
            final == ShiftRegisterTrail(<<{}>>, entering)[8 * Len(data) + 1]
            weight(i) == IF i \in final THEN 2 ^ i ELSE 0
            reference == weight(0) + weight(1) + weight(2) + weight(3)
                             + weight(4) + weight(5) + weight(6) + weight(7)
        IN  /\ crc = reference
            /\ data = <<>> => crc = 0
            /\ data = <<97, 1, 75, 70, 127, 255, 15, 16>> => crc = 2
            /\ data = <<95, 1, 75, 70, 127, 255, 1, 16>> => crc = 155

\* the third test vector of crc8.rs has been run
C36_Witness ==
    /\ data = <<95, 1, 75, 70, 127, 255, 1, 16>>
    /\ ~appended
    /\ crc = 155

=============================================================================
